---- MODULE Spec2Model ----
(***************************************************************************)
(* Model of json-rpc2-implementer (src/index.ts, class JsonRpc2Implementer *)
(* and JsonRpcError): the correlation table of outstanding calls, the      *)
(* dispatch of inbound messages to the method handler or to a pending      *)
(* call, and the message builders.                                         *)
(*                                                                         *)
(* JavaScript values are written as their literals: "undefined", "null",   *)
(* "0", "19", "false", "''" (the empty string), "'test'" (a string).       *)
(* An absent member of a JSON object reads as "undefined".                 *)
(***************************************************************************)
EXTENDS Integers, Sequences, FiniteSets, TLC

\* ------------------------------------------------------------------ bounds
\* Spec: the number of call() and of receive() invocations of a run.
MaxCalls == 2
MaxReceives == 2
\* SpecDispatch: the number of call() and of receive() invocations of a run,
\* and the length of a batch.
DispatchCalls == 1
DispatchReceives == 1
MaxBatch == 2
\* SpecNotice: the number of notice() invocations of a run.
MaxNotices == 2
\* SpecRespond: the number of direct createResponse() uses and of receive()
\* invocations of a run.
MaxResponsesBuilt == 1
RespondReceives == 1
\* SpecRequest: the number of direct createRequest() uses, of call() and of
\* receive() invocations of a run.
MaxRequestsBuilt == 2
RequestCalls == 2
RequestReceives == 1
\* SpecError: the number of direct uses of JsonRpcError of a run.
MaxErrorsBuilt == 2
\* SpecTimeout: the number of call() and of receive() invocations of a run.
TimeoutCalls == 2
TimeoutReceives == 1

\* SpecBooks: calls, receives, notices and builder uses.
BooksCalls == 1
BooksReceives == 1
BooksNotices == 1
BooksBuilt == 1

\* SpecIds: calls and receives.
IdsCalls == 2
IdsReceives == 2

\* SpecModule: module-level receives.
ModuleReceives == 2

\* ------------------------------------------------------- program constants
VERSION == "2.0"
ParseError == -32700
InvalidRequest == -32600
MethodNotFound == -32601
InvalidParams == -32602
InternalError == -32603
ServerErrorSince == -32000
ServerErrorUntil == -32099
MAX_INT32 == 2147483647
\* The value test code gives rpc.timeout; the default is 60000.
TestTimeout == 200

\* ------------------------------------------------------ JavaScript values
Undefined == "undefined"
JNull == "null"
\* The symbol returned by a handler that wants no response.
NoResponse == "Symbol(NoResponse)"

\* Literals that are not string literals.
NonStringLits == {"undefined", "null", "0", "19", "false", "true", "[42,23]", "{}"}

\* ToBoolean(v): the falsy values of the language.
Truthy(v) == v \notin {"undefined", "null", "0", "false", "''", "NaN"}

\* String(v): a string stays what it is, anything else becomes its text.
StringOf(v) == IF v \in NonStringLits THEN "'" \o v \o "'" ELSE v

\* Ids: a value and its type (Map keys and === compare both).
IdUndef == [t |-> "undefined", n |-> 0, s |-> ""]
IdNull == [t |-> "null", n |-> 0, s |-> ""]
IdNum(k) == [t |-> "number", n |-> k, s |-> ""]
IdStr(str) == [t |-> "string", n |-> 0, s |-> str]
IdBool(b) == [t |-> "boolean", n |-> 0, s |-> IF b THEN "true" ELSE "false"]

\* String(id) for an id that is not a number.
StringOfId(id) ==
    CASE id.t = "string" -> id
      [] id.t = "boolean" -> IdStr(id.s)
      [] id.t = "null" -> IdStr("null")
      [] id.t = "undefined" -> IdStr("undefined")
      [] OTHER -> id

\* -------------------------------------------------------------- JsonRpcError
\* A request as serialized by JSON.stringify: a member that is undefined is
\* left out, which reads back as "undefined".
NoReq == [jsonrpc |-> "", method |-> Undefined, params |-> Undefined, id |-> IdUndef]

\* Error values (anything that can be thrown or rejected with):
\*   cls "JsonRpcError" : code, message, data
\*   cls "Error"        : a generic Error; code 0 stands for no code member
\*   cls "TimeoutError" : the Error call() makes, message embedding req
\*   cls "TypeError"    : the engine's error on reading a member of null
\*   cls "value"        : a thrown non-Error value, its literal in data
\*   cls "none"         : no error
\* scode is the code member when it is a string that is no numeral, "" when
\* the code member is a number or absent.
MkErr(cls, code, message, data, req) ==
    [cls |-> cls, code |-> code, scode |-> "", message |-> message, data |-> data,
     req |-> req]

\* An Error whose code member is a string, as the errors of the platform's
\* system calls have them ('ENOENT').
MkSysErr(scode, message) ==
    [MkErr("Error", 0, message, Undefined, NoReq) EXCEPT !.scode = scode]

NoErr == MkErr("none", 0, Undefined, Undefined, NoReq)

makeDefaultErrorMessage(code) ==
    CASE code = ParseError -> "'Parse error'"
      [] code = InvalidRequest -> "'Invalid Request'"
      [] code = MethodNotFound -> "'Method not found'"
      [] code = InvalidParams -> "'Invalid params'"
      [] code = InternalError -> "'Internal error'"
      [] OTHER -> IF code >= ServerErrorSince /\ code <= ServerErrorUntil
                  THEN "'Server error'"
                  ELSE "'Unknown Error'"

\* new JsonRpcError(code, message, data): super(message || default(code)).
NewJsonRpcError(code, message, data) ==
    MkErr("JsonRpcError",
          code,
          IF Truthy(message) THEN message ELSE makeDefaultErrorMessage(code),
          data,
          NoReq)

\* JsonRpcError.convert(error).
convert(error) ==
    IF error.cls = "JsonRpcError" THEN error
    ELSE IF error.cls \in {"Error", "TimeoutError", "TypeError"}
         THEN [MkErr("JsonRpcError",
                     IF error.code # 0 THEN error.code ELSE InternalError,
                     IF Truthy(error.message) THEN error.message
                     ELSE makeDefaultErrorMessage(InternalError),
                     IF Truthy(error.data) THEN error.data ELSE Undefined,
                     NoReq)
               EXCEPT !.scode = error.scode]
         ELSE MkErr("JsonRpcError", InternalError, StringOf(error.data), Undefined, NoReq)

\* The error object of the wire format.
\* A mutant: toJSON() always has the member data, null when there is none.
toJSON_dataNull(e) ==
    [code |-> IF e.scode = "" THEN e.code ELSE 0, nan |-> e.scode # "",
     message |-> StringOf(e.message),
     data |-> IF e.data = Undefined THEN JNull ELSE e.data]

\* nan: the code member is NaN, which JSON.stringify writes as null.
NoErrObj == [code |-> 0, nan |-> FALSE, message |-> Undefined, data |-> Undefined]

\* JsonRpcError.toJSON(): {code: Number(code), message: String(message)} and
\* data when it is not undefined. Number() of a string that is no numeral is NaN.
toJSON(e) ==
    [code |-> IF e.scode = "" THEN e.code ELSE 0, nan |-> e.scode # "",
     message |-> StringOf(e.message), data |-> e.data]

\* Truthiness of a thrown value: objects are truthy, a primitive by its value.
TruthyErr(e) == IF e.cls = "value" THEN Truthy(e.data) ELSE e.cls # "none"

\* ------------------------------------------------------------ message builders
\* A mutant: at MAX_INT32 the counter is reset and returned as it is.
generateId_wrapZero(idCounter) ==
    IF idCounter >= MAX_INT32
    THEN [idCounter |-> 0, id |-> IdNum(0)]
    ELSE [idCounter |-> idCounter + 1, id |-> IdNum(idCounter + 1)]

\* generateId(): the counter after the call and the id it returns.
generateId(idCounter) ==
    LET c == IF idCounter >= MAX_INT32 THEN 0 ELSE idCounter
    IN  [idCounter |-> c + 1, id |-> IdNum(c + 1)]

\* A mutant: an id is generated for every falsy id, 0 among them.
createRequest_ifFalsy(idCounter, method, params, id) ==
    LET g == generateId(idCounter)
        missing == id.t \in {"null", "undefined"} \/ id = IdNum(0)
        rid == IF missing THEN g.id
               ELSE IF id.t # "number" THEN StringOfId(id) ELSE id
    IN  [idCounter |-> IF missing THEN g.idCounter ELSE idCounter,
         req |-> [jsonrpc |-> VERSION, method |-> method, params |-> params, id |-> rid]]

\* createRequest(method, params, id): the request and the counter afterwards.
createRequest(idCounter, method, params, id) ==
    LET g == generateId(idCounter)
        rid == IF id.t \in {"null", "undefined"} THEN g.id
               ELSE IF id.t # "number" THEN StringOfId(id) ELSE id
    IN  [idCounter |-> IF id.t \in {"null", "undefined"} THEN g.idCounter ELSE idCounter,
         req |-> [jsonrpc |-> VERSION, method |-> method, params |-> params, id |-> rid]]

\* createNotification(method, params).
createNotification(method, params) ==
    [jsonrpc |-> VERSION, method |-> method, params |-> params, id |-> IdUndef]

\* A mutant: an id that is not undefined or null is kept whatever its type.
createResponse_idKept(id, result, error) ==
    LET rid == IF id.t \in {"undefined", "null"} THEN IdNull ELSE id
    IN  IF TruthyErr(error)
        THEN [jsonrpc |-> VERSION, id |-> rid, hasResult |-> FALSE, result |-> Undefined,
              hasError |-> TRUE, error |-> toJSON(convert(error))]
        ELSE [jsonrpc |-> VERSION, id |-> rid, hasResult |-> TRUE,
              result |-> IF Truthy(result) THEN result ELSE JNull,
              hasError |-> FALSE, error |-> NoErrObj]

\* A mutant: the result is stored as it is given.
createResponse_asGiven(id, result, error) ==
    LET rid == IF id.t \in {"undefined", "null"} THEN IdNull
               ELSE IF id.t # "number" THEN StringOfId(id) ELSE id
    IN  IF TruthyErr(error)
        THEN [jsonrpc |-> VERSION, id |-> rid, hasResult |-> FALSE, result |-> Undefined,
              hasError |-> TRUE, error |-> toJSON(convert(error))]
        ELSE [jsonrpc |-> VERSION, id |-> rid, hasResult |-> result # Undefined,
              result |-> result, hasError |-> FALSE, error |-> NoErrObj]

\* createResponse(id, result, error) as JSON.stringify writes it: error through
\* toJSON, result kept (it is never undefined).
createResponse(id, result, error) ==
    LET rid == IF id.t \in {"undefined", "null"} THEN IdNull
               ELSE IF id.t # "number" THEN StringOfId(id) ELSE id
    IN  IF TruthyErr(error)
        THEN [jsonrpc |-> VERSION, id |-> rid, hasResult |-> FALSE, result |-> Undefined,
              hasError |-> TRUE, error |-> toJSON(convert(error))]
        ELSE [jsonrpc |-> VERSION, id |-> rid, hasResult |-> TRUE,
              result |-> IF Truthy(result) THEN result ELSE JNull,
              hasError |-> FALSE, error |-> NoErrObj]

\* ------------------------------------------------------------ inbound messages
\* One element of a parsed message: an object with its members, or the value
\* null (kind "null"), which has no members at all.
Elem(kind, method, params, id, result, hasError, error) ==
    [kind |-> kind, method |-> method, params |-> params, id |-> id,
     result |-> result, hasError |-> hasError, error |-> error]

ReqElem(method, params, id) == Elem("object", method, params, id, Undefined, FALSE, NoErrObj)
ResultElem(id, result) == Elem("object", Undefined, Undefined, id, result, FALSE, NoErrObj)
ErrorElem(id, code, message, data) ==
    Elem("object", Undefined, Undefined, id, Undefined, TRUE,
         [code |-> code, nan |-> FALSE, message |-> message, data |-> data])
NullElem == Elem("null", Undefined, Undefined, IdUndef, Undefined, FALSE, NoErrObj)

\* A mutant: an id member makes a response too.
isResponse_orId(json) ==
    json.result # Undefined \/ json.hasError \/ json.id.t \notin {"undefined", "null"}

\* A mutant: only a result member makes a response.
isResponse_resultOnly(json) == json.result # Undefined

\* isResponse(json); reading a member of null throws a TypeError instead.
isResponse(json) == json.result # Undefined \/ json.hasError
isResponseThrows(json) == json.kind = "null"

\* ------------------------------------------------------------------- state
VARIABLES
    callbackMap,   \* id -> index of the call whose resolve/reject it holds
    idCounter,     \* JsonRpc2Implementer.idCounter
    timeout,       \* JsonRpc2Implementer.timeout
    hasHandler,    \* whether methodHandler is set
    calls,         \* the call() invocations so far, in order, with their promise
    rcv,           \* the receive() invocations so far, in order
    nSender,       \* how many times sender was invoked
    nHandler,      \* how many times methodHandler was invoked
    notices,       \* the notice() invocations so far, in order, with their promise
    built,         \* the direct uses of the builders and of JsonRpcError, in order
    impl           \* the module-level instance of the deprecated functions: the
                   \* methodHandler its installed wrapper closes over, and per
                   \* module-level receive() the handler it was given (given)
                   \* and the handler each element was dispatched to (log)

vars == <<callbackMap, idCounter, timeout, hasHandler, calls, rcv, nSender, nHandler,
          notices, built, impl>>

Range(q) == {q[i] : i \in 1..Len(q)}

\* No module-level function has been used: impl.methodHandler is not set.
NoImpl == [methodHandler |-> "none", given |-> <<>>, log |-> <<>>]

\* Map.delete(key).
MapDelete(cm, id) == [k \in DOMAIN cm \ {id} |-> cm[k]]
\* Map.set(key, value): the entry of an id that is already a key is replaced.
MapSet(cm, id, c) == [k \in DOMAIN cm \cup {id} |-> IF k = id THEN c ELSE cm[k]]

\* resolve(v) of the promise of call c: only a pending promise is settled.
resolveCall(cs, c, v) ==
    IF cs[c].state = "pending"
    THEN [cs EXCEPT ![c].state = "resolved", ![c].value = v, ![c].by = "response"]
    ELSE cs

\* reject(e) of the promise of call c, by is the path that rejects.
rejectCall(cs, c, e, by) ==
    IF cs[c].state = "pending"
    THEN [cs EXCEPT ![c].state = "rejected", ![c].err = e, ![c].by = by]
    ELSE cs

\* A mutant: every entry is removed from the map.
removeIdAndReject_clear(cm, cs, c, e, by) ==
    [cm |-> << >>, calls |-> rejectCall(cs, c, e, by)]

\* A mutant: the id stays in the map.
removeIdAndReject_keep(cm, cs, c, e, by) ==
    [cm |-> cm, calls |-> rejectCall(cs, c, e, by)]

\* removeIdAndReject(e) of call c: callbackMap.delete(req.id); reject(e).
removeIdAndReject(cm, cs, c, e, by) ==
    [cm |-> MapDelete(cm, cs[c].req.id), calls |-> rejectCall(cs, c, e, by)]

\* A mutant: the entry is looked up by the text of the id, as an object with
\* the ids as property names would.
doCallback_loose(cm, cs, response) ==
    LET Text(id) == CASE id.t = "number" /\ id.n = 1 -> "1"
                      [] id.t = "number" /\ id.n = 2 -> "2"
                      [] id.t = "string" -> id.s
                      [] OTHER -> id.t
    IN  IF \A k \in DOMAIN cm : Text(k) # Text(response.id)
        THEN [cm |-> cm, calls |-> cs, hit |-> 0]
        ELSE LET key == CHOOSE k \in DOMAIN cm : Text(k) = Text(response.id)
                 c == cm[key]
             IN  [cm |-> MapDelete(cm, key),
                  calls |-> IF response.hasError
                            THEN rejectCall(cs, c,
                                     NewJsonRpcError(response.error.code,
                                                     response.error.message,
                                                     response.error.data), "response")
                            ELSE resolveCall(cs, c, response.result),
                  hit |-> c]

\* A mutant: the entry is left in the map when its callback runs.
doCallback_keep(cm, cs, response) ==
    IF response.id \notin DOMAIN cm
    THEN [cm |-> cm, calls |-> cs, hit |-> 0]
    ELSE LET c == cm[response.id]
         IN  [cm |-> cm,
              calls |-> IF response.hasError
                        THEN rejectCall(cs, c,
                                 NewJsonRpcError(response.error.code,
                                                 response.error.message,
                                                 response.error.data), "response")
                        ELSE resolveCall(cs, c, response.result),
              hit |-> c]

\* doCallback(response): hit is the call whose callback ran (0 if none).
doCallback(cm, cs, response) ==
    IF response.id \notin DOMAIN cm
    THEN [cm |-> cm, calls |-> cs, hit |-> 0]
    ELSE LET c == cm[response.id]
         IN  [cm |-> MapDelete(cm, response.id),
              calls |-> IF response.hasError
                        THEN rejectCall(cs, c,
                                 NewJsonRpcError(response.error.code,
                                                 response.error.message,
                                                 response.error.data), "response")
                        ELSE resolveCall(cs, c, response.result),
              hit |-> c]

\* The TimeoutError of call(): its message embeds JSON.stringify(req).
TimeoutErr(req) == MkErr("TimeoutError", 0, "'RPC response timeouted.'", Undefined, req)

\* What a sender does when call() invokes it: it may hand the peer's answer to
\* receive() before it returns (deliver), and it returns nothing, throws e, or
\* returns a promise.
CallSenderBehaviours ==
    [deliver : BOOLEAN, ret : {"void", "promise"}, e : {NoErr}]
    \cup [deliver : BOOLEAN, ret : {"throw"},
          e : {MkErr("Error", 0, "'test error'", Undefined, NoReq)}]

\* The values a promise returned by sender rejects with.
SenderRejections ==
    {MkErr("value", 0, Undefined, "'test error'", NoReq)}

\* The answer a sender hands to receive() from inside itself.
AnswerTo(req) == ResultElem(req.id, "19")

\* A mutant: sender is invoked before the entry is registered.
callBody_sendFirst(cm, cs, c, sb, tmo) ==
    LET req == cs[c].req
        d == IF sb.deliver THEN doCallback(cm, cs, AnswerTo(req))
             ELSE [cm |-> cm, calls |-> cs, hit |-> 0]
        cm1 == MapSet(d.cm, req.id, c)
        cs1 == [d.calls EXCEPT ![c].deliver = sb.deliver, ![c].sfail = sb.e]
    IN  IF sb.ret = "throw"
        THEN removeIdAndReject(cm1, cs1, c, sb.e, "sender")
        ELSE [cm |-> cm1,
              calls |-> [cs1 EXCEPT
                            ![c].sp = IF sb.ret = "promise" THEN "pending" ELSE "none",
                            ![c].timer = IF tmo > 0 THEN "armed" ELSE "none"]]

\* The executor of call()'s promise for call c, whose record cs[c] holds the
\* request: register, invoke sender, arm the timer; a throw removes and rejects.
callBody(cm, cs, c, sb, tmo) ==
    LET req == cs[c].req
        cm1 == MapSet(cm, req.id, c)
        d == IF sb.deliver THEN doCallback(cm1, cs, AnswerTo(req))
             ELSE [cm |-> cm1, calls |-> cs, hit |-> 0]
        cs1 == [d.calls EXCEPT ![c].deliver = sb.deliver, ![c].sfail = sb.e]
    IN  IF sb.ret = "throw"
        THEN removeIdAndReject(d.cm, cs1, c, sb.e, "sender")
        ELSE [cm |-> d.cm,
              calls |-> [cs1 EXCEPT
                            ![c].sp = IF sb.ret = "promise" THEN "pending" ELSE "none",
                            ![c].timer = IF tmo > 0 THEN "armed" ELSE "none"]]

\* arg is the id given to call(), tmo is this.timeout when call() runs.
NewCall(req, id, tmo) ==
    [req |-> req, arg |-> id, tmo |-> tmo, state |-> "pending", value |-> Undefined, err |-> NoErr,
     by |-> "none", timer |-> "none", sp |-> "none", deliver |-> FALSE, sfail |-> NoErr]

\* call(method, params, id).
Call(id, sb) ==
    /\ LET cr == createRequest(idCounter, "'subtract'", "[42,23]", id)
           c == Len(calls) + 1
           st == callBody(callbackMap, Append(calls, NewCall(cr.req, id, timeout)), c, sb, timeout)
       IN  /\ callbackMap' = st.cm
           /\ calls' = st.calls
           /\ idCounter' = cr.idCounter
    /\ nSender' = nSender + 1
    /\ UNCHANGED <<timeout, hasHandler, impl, rcv, nHandler, notices, built>>

\* The promise sender returned to call c resolves: nothing is attached to that.
SenderResolves(c) ==
    /\ c \in 1..Len(calls)
    /\ calls[c].sp = "pending"
    /\ calls' = [calls EXCEPT ![c].sp = "resolved"]
    /\ UNCHANGED <<callbackMap, idCounter, timeout, hasHandler, impl, rcv, nSender, nHandler, notices, built>>

\* The promise sender returned to call c rejects: result.catch(removeIdAndReject).
SenderRejects(c, e) ==
    /\ c \in 1..Len(calls)
    /\ calls[c].sp = "pending"
    /\ LET st == removeIdAndReject(callbackMap, calls, c, e, "sender")
       IN  /\ callbackMap' = st.cm
           /\ calls' = [st.calls EXCEPT ![c].sp = "rejected", ![c].sfail = e]
    /\ UNCHANGED <<idCounter, timeout, hasHandler, impl, rcv, nSender, nHandler, notices, built>>

\* A continuation of receive() is queued as a microtask; timers run only when
\* no microtask is left.
MicrotaskPending == \E p \in 1..Len(rcv) : rcv[p].pc \in {"loop", "send"}

\* A mutant: the timer rejects without looking at the map.
timeoutCallback_always(cm, cs, c) ==
    removeIdAndReject(cm, cs, c, TimeoutErr(cs[c].req), "timeout")

\* The setTimeout callback of call c.
timeoutCallback(cm, cs, c) ==
    IF cs[c].req.id \in DOMAIN cm
    THEN removeIdAndReject(cm, cs, c, TimeoutErr(cs[c].req), "timeout")
    ELSE [cm |-> cm, calls |-> cs]

\* The timer of call c fires; timers of one delay fire in the order they were set.
TimeoutFires(c) ==
    /\ c \in 1..Len(calls)
    /\ calls[c].timer = "armed"
    /\ \A b \in 1..(c - 1) : calls[b].timer # "armed"
    /\ ~MicrotaskPending
    /\ LET st == timeoutCallback(callbackMap, calls, c)
       IN  /\ callbackMap' = st.cm
           /\ calls' = [st.calls EXCEPT ![c].timer = "fired"]
    /\ UNCHANGED <<idCounter, timeout, hasHandler, impl, rcv, nSender, nHandler, notices, built>>

\* ------------------------------------------------------------------ receive
\* The text given to receive(), by what JSON.parse makes of it: no JSON at all
\* ("invalid"), a number, string, boolean or null ("primitive"), an object
\* (one element) or an array of elements.
Msg(text, batch, elems) == [text |-> text, batch |-> batch, elems |-> elems]
InvalidText == Msg("invalid", FALSE, <<>>)
PrimitiveText == Msg("primitive", FALSE, <<>>)
Single(e) == Msg("json", FALSE, <<e>>)
Batch(es) == Msg("json", TRUE, es)

\* A mutant: text that is no JSON is reported as an invalid request.
parse_asInvalidRequest(msg) ==
    IF msg.text \in {"invalid", "primitive"}
    THEN NewJsonRpcError(InvalidRequest, Undefined, Undefined)
    ELSE IF msg.batch /\ Len(msg.elems) = 0
         THEN NewJsonRpcError(InvalidRequest, Undefined, Undefined)
         ELSE NoErr

\* A mutant: the empty array is let through.
parse_lenient(msg) ==
    IF msg.text = "invalid" THEN NewJsonRpcError(ParseError, Undefined, Undefined)
    ELSE IF msg.text = "primitive" THEN NewJsonRpcError(InvalidRequest, Undefined, Undefined)
    ELSE NoErr

\* parse(message): the error it throws, NoErr when it returns the value.
parse(msg) ==
    IF msg.text = "invalid" THEN NewJsonRpcError(ParseError, Undefined, Undefined)
    ELSE IF msg.text = "primitive" THEN NewJsonRpcError(InvalidRequest, Undefined, Undefined)
    ELSE IF msg.batch /\ Len(msg.elems) = 0
         THEN NewJsonRpcError(InvalidRequest, Undefined, Undefined)
         ELSE NoErr

\* What receive() hands to sender: nothing, one response, or an array.
NoReply == [kind |-> "none", rs |-> <<>>]
OneReply(r) == [kind |-> "single", rs |-> <<r>>]
ManyReply(rs) == [kind |-> "batch", rs |-> rs]

\* What methodHandler does when invoked: it returns v, throws e, or returns a
\* promise ("promise") that later resolves to v or rejects with e.
Outcome(how, v, e) == [how |-> how, v |-> v, e |-> e]
ReturnVals == {"'test'", "0", NoResponse}
ThrownVals == {MkErr("Error", 0, "'boom'", Undefined, NoReq),
               MkErr("value", 0, Undefined, Undefined, NoReq)}
SettledOutcomes ==
    {Outcome("return", v, NoErr) : v \in ReturnVals}
    \cup {Outcome("throw", Undefined, e) : e \in ThrownVals}
PendingOutcome == Outcome("promise", Undefined, NoErr)
HandlerOutcomes == SettledOutcomes \cup {PendingOutcome}
\* No handler is set: doMethod throws before it would invoke one.
NoHandlerOutcome == Outcome("throw", Undefined, NewJsonRpcError(MethodNotFound, Undefined, Undefined))

\* A mutant: a response is built for a request without id as well.
doMethodResult_always(request, o) ==
    IF o.how = "throw"
    THEN <<createResponse(request.id, JNull, o.e)>>
    ELSE IF o.v # NoResponse
         THEN <<createResponse(request.id, o.v, NoErr)>>
         ELSE <<>>

\* A mutant: a handler's failure is answered only when the request has an id.
doMethodResult_quiet(request, o) ==
    IF request.id.t \notin {"undefined", "null"} /\ o.v # NoResponse
    THEN IF o.how = "throw"
         THEN <<createResponse(request.id, JNull, o.e)>>
         ELSE <<createResponse(request.id, o.v, NoErr)>>
    ELSE <<>>

\* A mutant: the response is built without the request's id.
doMethodResult_nullid(request, o) ==
    IF o.how = "throw"
    THEN <<createResponse(request.id, JNull, o.e)>>
    ELSE IF o.v # NoResponse /\ request.id.t \notin {"undefined", "null"}
         THEN <<createResponse(IdNull, o.v, NoErr)>>
         ELSE <<>>

\* A mutant: the sentinel NoResponse is answered like any other result.
doMethodResult_noSentinel(request, o) ==
    IF o.how = "throw"
    THEN <<createResponse(request.id, JNull, o.e)>>
    ELSE IF request.id.t \notin {"undefined", "null"}
         THEN <<createResponse(request.id, o.v, NoErr)>>
         ELSE <<>>

\* doMethod(request) once the handler's outcome o is known: the response it
\* returns as a one-element sequence, the empty sequence for null.
doMethodResult(request, o) ==
    IF o.how = "throw"
    THEN <<createResponse(request.id, JNull, o.e)>>
    ELSE IF o.v # NoResponse /\ request.id.t \notin {"undefined", "null"}
         THEN <<createResponse(request.id, o.v, NoErr)>>
         ELSE <<>>

\* One receive() invocation.
\*   pc: "handler" awaiting the handler's promise for element idx,
\*       "loop"    doMethod of element idx of a batch returned cur, the loop resumes,
\*       "send"    doMetodOrCallback settled with res (or parse threw), receive resumes,
\*       "sender"  awaiting the promise sender returned,
\*       "done"    receive()'s promise resolved, "failed" it rejected with err.
\*   routes: per element reached, "callback", "method" or "throw";
\*   hlog: the handler invocations (method, params, id);
\*   made: per element doMethod has finished with, its index k, what the
\*         handler did (o) and the response doMethod returned (res, <<>> for null);
\*   hits: the calls whose callback ran; sent: what was handed to sender.
NewRcv(msg) ==
    [msg |-> msg, pc |-> "send", idx |-> 0, cur |-> <<>>, responses |-> <<>>,
     res |-> NoReply, routes |-> <<>>, hlog |-> <<>>, made |-> <<>>, hits |-> <<>>,
     sent |-> <<>>, err |-> NoErr]

\* A mutant: the response that follows a request is correlated before the
\* request's handler has settled.
RECURSIVE runLoop_eager(_, _, _, _, _, _)
runLoop_eager(elems, i, cm, cs, routes, hits) ==
    IF i > Len(elems)
    THEN [stop |-> "end", i |-> i, cm |-> cm, calls |-> cs, routes |-> routes, hits |-> hits]
    ELSE IF isResponseThrows(elems[i])
    THEN [stop |-> "throw", i |-> i, cm |-> cm, calls |-> cs,
          routes |-> Append(routes, "throw"), hits |-> hits]
    ELSE IF isResponse(elems[i])
    THEN LET d == doCallback(cm, cs, elems[i])
         IN  runLoop_eager(elems, i + 1, d.cm, d.calls, Append(routes, "callback"),
                           IF d.hit = 0 THEN hits ELSE Append(hits, d.hit))
    ELSE IF i < Len(elems) /\ ~isResponseThrows(elems[i + 1]) /\ isResponse(elems[i + 1])
    THEN LET d == doCallback(cm, cs, elems[i + 1])
         IN  [stop |-> "request", i |-> i, cm |-> d.cm, calls |-> d.calls,
              routes |-> Append(Append(routes, "method"), "callback"),
              hits |-> IF d.hit = 0 THEN hits ELSE Append(hits, d.hit)]
    ELSE [stop |-> "request", i |-> i, cm |-> cm, calls |-> cs,
          routes |-> Append(routes, "method"), hits |-> hits]

\* The loop of doMetodOrCallback from element i on, up to the next point where
\* it stops: the end of the elements, a request to dispatch, or a throw.
\* Responses on the way run their callback at once.
RECURSIVE runLoop(_, _, _, _, _, _)
runLoop(elems, i, cm, cs, routes, hits) ==
    IF i > Len(elems)
    THEN [stop |-> "end", i |-> i, cm |-> cm, calls |-> cs, routes |-> routes, hits |-> hits]
    ELSE IF isResponseThrows(elems[i])
    THEN [stop |-> "throw", i |-> i, cm |-> cm, calls |-> cs,
          routes |-> Append(routes, "throw"), hits |-> hits]
    ELSE IF isResponse(elems[i])
    THEN LET d == doCallback(cm, cs, elems[i])
         IN  runLoop(elems, i + 1, d.cm, d.calls, Append(routes, "callback"),
                     IF d.hit = 0 THEN hits ELSE Append(hits, d.hit))
    ELSE [stop |-> "request", i |-> i, cm |-> cm, calls |-> cs,
          routes |-> Append(routes, "method"), hits |-> hits]

\* The TypeError of reading a member of null.
NullTypeError == MkErr("TypeError", 0, "'Cannot read properties of null'", Undefined, NoReq)

\* What sender does when receive() or notice() invokes it.
ReplySenderBehaviours ==
    {[ret |-> "void", e |-> NoErr], [ret |-> "promise", e |-> NoErr],
     [ret |-> "throw", e |-> MkErr("Error", 0, "'test error'", Undefined, NoReq)]}

VoidSender == [ret |-> "void", e |-> NoErr]

\* A result JSON.stringify does not accept (a BigInt; a circular object is
\* another): it throws a TypeError instead of returning the text.
Unserializable == "10n"
StringifyTypeError ==
    MkErr("TypeError", 0, "'Do not know how to serialize a BigInt'", Undefined, NoReq)

\* JSON.stringify(res) returns the text of reply res.
Serializable(res) == \A i \in 1..Len(res.rs) : res.rs[i].result # Unserializable

\* The end of receive(): if (res) sender(JSON.stringify(res)), awaited. When
\* JSON.stringify throws, sender is not invoked and receive() rejects.
sendReply(r, sb) ==
    IF r.res.kind = "none"
    THEN [r EXCEPT !.pc = "done"]
    ELSE IF ~Serializable(r.res)
    THEN [r EXCEPT !.pc = "failed", !.err = StringifyTypeError]
    ELSE [r EXCEPT !.sent = Append(@, r.res),
                   !.pc = CASE sb.ret = "void" -> "done"
                            [] sb.ret = "promise" -> "sender"
                            [] OTHER -> "failed",
                   !.err = IF sb.ret = "throw" THEN sb.e ELSE NoErr]

Made(k, o, res) == [k |-> k, o |-> o, res |-> res]

\* doMetodOrCallback on receive r from element i on, with o what the handler
\* does if one is invoked: r afterwards, the map, the calls, handler invocations.
dispatch(r, i, cm, cs, handler, o) ==
    LET l == runLoop(r.msg.elems, i, cm, cs, r.routes, r.hits)
        r1 == [r EXCEPT !.routes = l.routes, !.hits = l.hits, !.idx = l.i]
        req == r.msg.elems[l.i]
        inv == [method |-> req.method, params |-> req.params, id |-> req.id]
    IN  CASE l.stop = "end" ->
               [r |-> IF Len(r.responses) > 0
                      THEN [r1 EXCEPT !.pc = "send", !.res = ManyReply(r.responses)]
                      ELSE [r1 EXCEPT !.pc = "done"],
                cm |-> l.cm, calls |-> l.calls, invoked |-> 0]
          [] l.stop = "throw" ->
               [r |-> [r1 EXCEPT !.pc = "send",
                                 !.res = OneReply(createResponse(IdNull, JNull, NullTypeError))],
                cm |-> l.cm, calls |-> l.calls, invoked |-> 0]
          [] OTHER ->
               IF ~handler
               THEN [r |-> [r1 EXCEPT !.cur = doMethodResult(req, NoHandlerOutcome),
                                      !.made = Append(@, Made(l.i, NoHandlerOutcome,
                                                   doMethodResult(req, NoHandlerOutcome))),
                                      !.pc = "loop"],
                     cm |-> l.cm, calls |-> l.calls, invoked |-> 0]
               ELSE [r |-> [r1 EXCEPT !.hlog = Append(@, inv),
                                      !.made = IF o.how = "promise" THEN @
                                               ELSE Append(@, Made(l.i, o, doMethodResult(req, o))),
                                      !.cur = IF o.how = "promise" THEN <<>>
                                              ELSE doMethodResult(req, o),
                                      !.pc = IF o.how = "promise" THEN "handler" ELSE "loop"],
                     cm |-> l.cm, calls |-> l.calls, invoked |-> 1]

\* receive(message) up to its first await, or to its end when parse throws.
Receive(msg, o, sb) ==
    /\ LET r0 == NewRcv(msg)
           pe == parse(msg)
           d == dispatch(r0, 1, callbackMap, calls, hasHandler, o)
       IN  IF pe.cls # "none"
           THEN /\ rcv' = Append(rcv, sendReply(
                               [r0 EXCEPT !.res = OneReply(createResponse(IdNull, JNull, pe))], sb))
                /\ nSender' = nSender + 1
                /\ UNCHANGED <<callbackMap, calls, nHandler>>
           ELSE /\ rcv' = Append(rcv, d.r)
                /\ callbackMap' = d.cm
                /\ calls' = d.calls
                /\ nHandler' = nHandler + d.invoked
                /\ UNCHANGED nSender
    /\ UNCHANGED <<idCounter, timeout, hasHandler, impl, notices, built>>

\* The promise the handler returned to receive p settles with o; doMethod resumes.
HandlerSettles(p, o) ==
    /\ p \in 1..Len(rcv)
    /\ rcv[p].pc = "handler"
    /\ rcv' = [rcv EXCEPT ![p].cur = doMethodResult(rcv[p].msg.elems[rcv[p].idx], o),
                          ![p].made = Append(@, Made(rcv[p].idx, o,
                                          doMethodResult(rcv[p].msg.elems[rcv[p].idx], o))),
                          ![p].pc = "loop"]
    /\ UNCHANGED <<callbackMap, idCounter, timeout, hasHandler, impl, calls, nSender, nHandler, notices, built>>

\* doMetodOrCallback of receive p resumes after doMethod: a single request's
\* response is its result; in a batch it is pushed and the loop goes on.
ReceiveLoop(p, o) ==
    /\ p \in 1..Len(rcv)
    /\ rcv[p].pc = "loop"
    /\ LET r == rcv[p]
           d == dispatch([r EXCEPT !.responses = @ \o r.cur, !.cur = <<>>],
                         r.idx + 1, callbackMap, calls, hasHandler, o)
       IN  IF ~r.msg.batch
           THEN /\ rcv' = [rcv EXCEPT ![p].pc = "send", ![p].cur = <<>>,
                                      ![p].res = IF Len(r.cur) > 0 THEN OneReply(r.cur[1])
                                                 ELSE NoReply]
                /\ UNCHANGED <<callbackMap, calls, nHandler>>
           ELSE /\ rcv' = [rcv EXCEPT ![p] = d.r]
                /\ callbackMap' = d.cm
                /\ calls' = d.calls
                /\ nHandler' = nHandler + d.invoked
    /\ UNCHANGED <<idCounter, timeout, hasHandler, impl, nSender, notices, built>>

\* receive p resumes after doMetodOrCallback: if (res) sender(...).
ReceiveSend(p, sb) ==
    /\ p \in 1..Len(rcv)
    /\ rcv[p].pc = "send"
    /\ rcv' = [rcv EXCEPT ![p] = sendReply(rcv[p], sb)]
    /\ nSender' = nSender + (IF rcv[p].res.kind = "none" \/ ~Serializable(rcv[p].res)
                              THEN 0 ELSE 1)
    /\ UNCHANGED <<callbackMap, idCounter, timeout, hasHandler, impl, calls, nHandler, notices, built>>

\* The promise sender returned to receive p settles.
ReplySent(p, e) ==
    /\ p \in 1..Len(rcv)
    /\ rcv[p].pc = "sender"
    /\ rcv' = [rcv EXCEPT ![p].pc = IF e.cls = "none" THEN "done" ELSE "failed",
                          ![p].err = e]
    /\ UNCHANGED <<callbackMap, idCounter, timeout, hasHandler, impl, calls, nSender, nHandler, notices, built>>

\* ------------------------------------------------------------------- notice
\* A mutant: notice() builds its request as call() does, with a generated id
\* registered in the map.
noticeBody_asCall(cm, idc, sb) ==
    LET cr == createRequest(idc, "'update'", "[1,2,3,4,5]", IdUndef)
    IN  [cm |-> MapSet(cm, cr.req.id, 0), idCounter |-> cr.idCounter, req |-> cr.req,
         pc |-> CASE sb.ret = "void" -> "done"
                  [] sb.ret = "promise" -> "sender"
                  [] OTHER -> "failed",
         err |-> IF sb.ret = "throw" THEN sb.e ELSE NoErr]

\* A mutant: notice() does not await what sender returned.
noticeBody_noAwait(cm, idc, sb) ==
    [cm |-> cm, idCounter |-> idc, req |-> createNotification("'update'", "[1,2,3,4,5]"),
     pc |-> "done",
     err |-> NoErr]

\* notice(method, params) up to its await: the map and the counter afterwards,
\* the request handed to sender, and where its promise stands.
noticeBody(cm, idc, sb) ==
    [cm |-> cm, idCounter |-> idc, req |-> createNotification("'update'", "[1,2,3,4,5]"),
     pc |-> CASE sb.ret = "void" -> "done"
              [] sb.ret = "promise" -> "sender"
              [] OTHER -> "failed",
     err |-> IF sb.ret = "throw" THEN sb.e ELSE NoErr]

\* notice(method, params). Beside the promise of notice() (pc, err) the record
\* keeps what sender did: sp is the promise it returned ("none" if it returned
\* none), sfail what it threw or what its promise rejected with.
Notice(sb) ==
    /\ LET b == noticeBody(callbackMap, idCounter, sb)
       IN  /\ callbackMap' = b.cm
           /\ idCounter' = b.idCounter
           /\ notices' = Append(notices,
                             [req |-> b.req, pc |-> b.pc, err |-> b.err,
                              sp |-> IF sb.ret = "promise" THEN "pending" ELSE "none",
                              sfail |-> sb.e])
    /\ nSender' = nSender + 1
    /\ UNCHANGED <<timeout, hasHandler, impl, calls, rcv, nHandler, built>>

\* The promise sender returned to notice n settles; a notice() that awaits it
\* resumes and settles the same way.
NoticeSent(n, e) ==
    /\ n \in 1..Len(notices)
    /\ notices[n].sp = "pending"
    /\ notices' = [notices EXCEPT
                      ![n].sp = IF e.cls = "none" THEN "resolved" ELSE "rejected",
                      ![n].sfail = e,
                      ![n].pc = IF notices[n].pc # "sender" THEN @
                                ELSE IF e.cls = "none" THEN "done" ELSE "failed",
                      ![n].err = IF notices[n].pc # "sender" THEN @ ELSE e]
    /\ UNCHANGED <<callbackMap, idCounter, timeout, hasHandler, impl, calls, rcv, nSender, nHandler, built>>

\* ------------------------------------------------------------ specification
Init ==
    /\ callbackMap = << >>
    /\ idCounter = 0
    /\ timeout \in {0, TestTimeout}
    /\ hasHandler = TRUE
    /\ calls = <<>>
    /\ rcv = <<>>
    /\ nSender = 0
    /\ nHandler = 0
    /\ notices = <<>>
    /\ built = <<>>
    /\ impl = NoImpl

\* Spec: calls with every kind of sender, answered by single responses. The
\* ids call() is given: none (generated), a number, a string.
CallIds == {IdUndef, IdNum(1), IdStr("1")}

Responses ==
    {ResultElem(IdNum(1), "19"),
     ResultElem(IdStr("1"), "19"),
     ResultElem(IdNull, "19"),
     ErrorElem(IdNum(1), MethodNotFound, "'Method not found'", "'detail'"),
     ErrorElem(IdStr("1"), ServerErrorSince, "''", Undefined)}

Next ==
    \/ /\ Len(calls) < MaxCalls
       /\ \E id \in CallIds, sb \in CallSenderBehaviours : Call(id, sb)
    \/ \E c \in 1..Len(calls) : SenderResolves(c)
    \/ \E c \in 1..Len(calls), e \in SenderRejections : SenderRejects(c, e)
    \/ \E c \in 1..Len(calls) : TimeoutFires(c)
    \/ /\ Len(rcv) < MaxReceives
       /\ \E e \in Responses : Receive(Single(e), PendingOutcome, VoidSender)

Spec == Init /\ [][Next]_vars

\* SpecDispatch: inbound requests, responses and batches of both, with every
\* kind of handler and sender, beside one outstanding call.
InitDispatch ==
    /\ callbackMap = << >>
    /\ idCounter = 0
    /\ timeout = TestTimeout
    /\ hasHandler \in BOOLEAN
    /\ calls = <<>>
    /\ rcv = <<>>
    /\ nSender = 0
    /\ nHandler = 0
    /\ notices = <<>>
    /\ built = <<>>
    /\ impl = NoImpl

Requests ==
    {ReqElem("'sum'", "[1,2,4]", IdStr("1")),
     ReqElem("'notify_hello'", "[7]", IdUndef),
     ReqElem(Undefined, Undefined, IdNull)}

BatchElems ==
    {ReqElem("'sum'", "[1,2,4]", IdStr("1")),
     ReqElem("'notify_hello'", "[7]", IdUndef),
     ResultElem(IdNum(1), "19"),
     NullElem}

RECURSIVE SeqsOf(_, _)
SeqsOf(S, n) ==
    IF n = 0 THEN {<<>>}
    ELSE {Append(q, x) : q \in SeqsOf(S, n - 1), x \in S}
BatchesUpTo(n) == UNION {SeqsOf(BatchElems, k) : k \in 0..n}

Messages ==
    {InvalidText, PrimitiveText}
    \cup {Single(e) : e \in Requests \cup {ResultElem(IdNum(1), "19")}}
    \cup {Batch(es) : es \in BatchesUpTo(MaxBatch)}

NextDispatch ==
    \/ /\ Len(calls) < DispatchCalls
       /\ Call(IdUndef, [deliver |-> FALSE, ret |-> "void", e |-> NoErr])
    \/ \E c \in 1..Len(calls) : TimeoutFires(c)
    \/ /\ Len(rcv) < DispatchReceives
       /\ \E msg \in Messages, o \in HandlerOutcomes, sb \in ReplySenderBehaviours :
             Receive(msg, o, sb)
    \/ \E p \in 1..Len(rcv), o \in SettledOutcomes : HandlerSettles(p, o)
    \/ \E p \in 1..Len(rcv), o \in HandlerOutcomes : ReceiveLoop(p, o)
    \/ \E p \in 1..Len(rcv), sb \in ReplySenderBehaviours : ReceiveSend(p, sb)
    \/ \E p \in 1..Len(rcv), e \in SenderRejections \cup {NoErr} : ReplySent(p, e)

SpecDispatch == InitDispatch /\ [][NextDispatch]_vars

\* SpecSerialize: inbound requests and batches with a handler that may also
\* return a value JSON.stringify does not accept.
AnyOutcomes == HandlerOutcomes \cup {Outcome("return", Unserializable, NoErr)}

SerializeMessages ==
    {InvalidText}
    \cup {Single(e) : e \in Requests}
    \cup {Batch(es) : es \in SeqsOf(Requests, 2)}

NextSerialize ==
    \/ /\ Len(rcv) < DispatchReceives
       /\ \E msg \in SerializeMessages, o \in AnyOutcomes, sb \in ReplySenderBehaviours :
             Receive(msg, o, sb)
    \/ \E p \in 1..Len(rcv), o \in AnyOutcomes \ {PendingOutcome} : HandlerSettles(p, o)
    \/ \E p \in 1..Len(rcv), o \in AnyOutcomes : ReceiveLoop(p, o)
    \/ \E p \in 1..Len(rcv), sb \in ReplySenderBehaviours : ReceiveSend(p, sb)
    \/ \E p \in 1..Len(rcv), e \in SenderRejections \cup {NoErr} : ReplySent(p, e)

SpecSerialize == InitDispatch /\ [][NextSerialize]_vars

\* SpecNotice: notices beside a call and the responses a peer may send.
NextNotice ==
    \/ /\ Len(notices) < MaxNotices
       /\ \E sb \in ReplySenderBehaviours : Notice(sb)
    \/ \E n \in 1..Len(notices), e \in SenderRejections \cup {NoErr} : NoticeSent(n, e)
    \/ /\ Len(calls) < DispatchCalls
       /\ \E id \in CallIds : Call(id, [deliver |-> FALSE, ret |-> "void", e |-> NoErr])
    \/ \E c \in 1..Len(calls) : TimeoutFires(c)
    \/ /\ Len(rcv) < MaxReceives
       /\ \E e \in Responses : Receive(Single(e), PendingOutcome, VoidSender)

SpecNotice == InitDispatch /\ [][NextNotice]_vars

\* rpc.timeout = t, assigned by the integrator.
SetTimeout(t) ==
    /\ t # timeout
    /\ timeout' = t
    /\ UNCHANGED <<callbackMap, idCounter, hasHandler, impl, calls, rcv, nSender, nHandler,
                   notices, built>>

\* ------------------------------------------------ direct use of the builders
\* createResponse(id, result, error) used by the integrator; error NoErr is the
\* argument left out.
CreateResponse(id, result, error) ==
    /\ built' = Append(built, [op |-> "createResponse", id |-> id, result |-> result,
                               error |-> error,
                               out |-> createResponse(id, result, error)])
    /\ UNCHANGED <<callbackMap, idCounter, timeout, hasHandler, impl, calls, rcv, nSender,
                   nHandler, notices>>

\* createRequest(method, params, id) used by the integrator.
CreateRequest(id) ==
    /\ LET cr == createRequest(idCounter, "'subtract'", "[42,23]", id)
       IN  /\ idCounter' = cr.idCounter
           /\ built' = Append(built, [op |-> "createRequest", id |-> id, out |-> cr.req])
    /\ UNCHANGED <<callbackMap, timeout, hasHandler, impl, calls, rcv, nSender, nHandler,
                   notices>>

\* new JsonRpcError(code, message, data) and its toJSON(); given says whether
\* a code is passed, the parameter's default being InternalError.
NewError(given, code, message, data) ==
    /\ LET e == NewJsonRpcError(IF given THEN code ELSE InternalError, message, data)
       IN  built' = Append(built, [op |-> "new", given |-> given, code |-> code,
                                   message |-> message, data |-> data,
                                   out |-> e, json |-> toJSON(e)])
    /\ UNCHANGED <<callbackMap, idCounter, timeout, hasHandler, impl, calls, rcv, nSender,
                   nHandler, notices>>

\* JsonRpcError.convert(error) and toJSON() of what it returns.
ConvertError(error) ==
    /\ built' = Append(built, [op |-> "convert", in |-> error, out |-> convert(error),
                               json |-> toJSON(convert(error))])
    /\ UNCHANGED <<callbackMap, idCounter, timeout, hasHandler, impl, calls, rcv, nSender,
                   nHandler, notices>>

\* SpecRespond: responses built directly and by receive() for single requests,
\* over the ids, results and errors of every type that matters to the builder.
RespondIds == {IdUndef, IdNull, IdNum(0), IdNum(20), IdStr("test"), IdBool(TRUE)}
RespondResults == {Undefined, JNull, "0", "false", "''", "'test'"}
RespondErrors ==
    {NoErr,
     MkErr("value", 0, Undefined, Undefined, NoReq),
     MkErr("Error", 0, "'boom'", Undefined, NoReq),
     NewJsonRpcError(InvalidParams, Undefined, "'detail'")}

RespondOutcomes ==
    {Outcome("return", v, NoErr) : v \in RespondResults \cup {NoResponse}}
    \cup {Outcome("throw", Undefined, e) : e \in RespondErrors \ {NoErr}}

RespondMessages == {Single(ReqElem("'sum'", "[1,2,4]", id)) : id \in RespondIds}

NextRespond ==
    \/ /\ Len(built) < MaxResponsesBuilt
       /\ \E id \in RespondIds, result \in RespondResults, error \in RespondErrors :
             CreateResponse(id, result, error)
    \/ /\ Len(rcv) < RespondReceives
       /\ \E msg \in RespondMessages, o \in RespondOutcomes \cup {PendingOutcome} :
             Receive(msg, o, VoidSender)
    \/ \E p \in 1..Len(rcv), o \in RespondOutcomes : HandlerSettles(p, o)
    \/ \E p \in 1..Len(rcv) : ReceiveLoop(p, PendingOutcome)
    \/ \E p \in 1..Len(rcv) : ReceiveSend(p, VoidSender)

SpecRespond == InitDispatch /\ [][NextRespond]_vars

\* SpecRequest: requests built directly and by call(), with and without an id
\* of each type, on an instance that has generated no id yet and on one whose
\* counter has reached the end of its range; and the responses of a peer.
InitRequest ==
    /\ callbackMap = << >>
    /\ idCounter \in {0, MAX_INT32 - 1, MAX_INT32}
    /\ timeout = TestTimeout
    /\ hasHandler = TRUE
    /\ calls = <<>>
    /\ rcv = <<>>
    /\ nSender = 0
    /\ nHandler = 0
    /\ notices = <<>>
    /\ built = <<>>
    /\ impl = NoImpl

RequestIds == {IdUndef, IdNull, IdNum(0), IdStr("UNITTEST1"), IdBool(TRUE)}

RequestResponses ==
    {ResultElem(IdNum(0), "19"),
     ResultElem(IdStr("0"), "19"),
     ResultElem(IdNum(1), "19"),
     ResultElem(IdStr("UNITTEST1"), "19"),
     ResultElem(IdStr("true"), "19")}

NextRequest ==
    \/ /\ Len(built) < MaxRequestsBuilt
       /\ \E id \in RequestIds : CreateRequest(id)
    \/ /\ Len(calls) < RequestCalls
       /\ \E id \in RequestIds : Call(id, [deliver |-> FALSE, ret |-> "void", e |-> NoErr])
    \/ \E c \in 1..Len(calls) : TimeoutFires(c)
    \/ /\ Len(rcv) < RequestReceives
       /\ \E e \in RequestResponses : Receive(Single(e), PendingOutcome, VoidSender)

SpecRequest == InitRequest /\ [][NextRequest]_vars

\* SpecError: errors constructed with the codes of the table, of the reserved
\* band and around its ends, and values of every kind converted.
ErrorCodes ==
    {ParseError, InvalidRequest, MethodNotFound, InvalidParams, InternalError,
     ServerErrorSince, ServerErrorUntil, -32050, -31999, -32100, 1}
ErrorMessages == {Undefined, "''", "'custom'"}
ErrorData == {Undefined, JNull, "'detail'"}

ConvertInputs ==
    {NewJsonRpcError(InvalidParams, Undefined, "'detail'"),
     MkErr("Error", 0, "'test error'", Undefined, NoReq),
     MkErr("Error", 0, "''", Undefined, NoReq),
     MkErr("Error", 404, "'not found'", "'detail'", NoReq),
     MkSysErr("'ENOENT'", "'no such file'"),
     TimeoutErr(NoReq),
     MkErr("value", 0, Undefined, "'test error'", NoReq),
     MkErr("value", 0, Undefined, Undefined, NoReq),
     MkErr("value", 0, Undefined, "19", NoReq)}

NextError ==
    \/ /\ Len(built) < MaxErrorsBuilt
       /\ \E code \in ErrorCodes, message \in ErrorMessages, data \in ErrorData :
             NewError(TRUE, code, message, data)
    \/ /\ Len(built) < MaxErrorsBuilt
       /\ \E message \in ErrorMessages, data \in ErrorData :
             NewError(FALSE, 0, message, data)
    \/ /\ Len(built) < MaxErrorsBuilt
       /\ \E error \in ConvertInputs : ConvertError(error)

SpecError == InitDispatch /\ [][NextError]_vars

\* SpecTimeout: calls made while timeout is negative, 0 or positive, the
\* integrator changing it between them, with every kind of sender and the
\* responses of a peer.
TimeoutValues == {-1, 0, TestTimeout}

InitTimeout ==
    /\ callbackMap = << >>
    /\ idCounter = 0
    /\ timeout \in TimeoutValues
    /\ hasHandler = TRUE
    /\ calls = <<>>
    /\ rcv = <<>>
    /\ nSender = 0
    /\ nHandler = 0
    /\ notices = <<>>
    /\ built = <<>>
    /\ impl = NoImpl

NextTimeout ==
    \/ \E t \in TimeoutValues : SetTimeout(t)
    \/ /\ Len(calls) < TimeoutCalls
       /\ \E id \in CallIds, sb \in CallSenderBehaviours : Call(id, sb)
    \/ \E c \in 1..Len(calls) : SenderResolves(c)
    \/ \E c \in 1..Len(calls), e \in SenderRejections : SenderRejects(c, e)
    \/ \E c \in 1..Len(calls) : TimeoutFires(c)
    \/ /\ Len(rcv) < TimeoutReceives
       /\ \E e \in Responses : Receive(Single(e), PendingOutcome, VoidSender)

SpecTimeout == InitTimeout /\ [][NextTimeout]_vars

\* SpecLive: the calls and responses of Spec with a positive timeout, under
\* the scheduling of the event loop: a timer that is set fires once its delay
\* has elapsed and no microtask is left.
InitLive ==
    /\ callbackMap = << >>
    /\ idCounter = 0
    /\ timeout = TestTimeout
    /\ hasHandler = TRUE
    /\ calls = <<>>
    /\ rcv = <<>>
    /\ nSender = 0
    /\ nHandler = 0
    /\ notices = <<>>
    /\ built = <<>>
    /\ impl = NoImpl

TimersFire == \A c \in 1..MaxCalls : WF_vars(TimeoutFires(c))

SpecLive == InitLive /\ [][Next]_vars /\ TimersFire

\* createNotification(method, params) used by the integrator.
CreateNotification ==
    /\ built' = Append(built, [op |-> "createNotification",
                               out |-> createNotification("'update'", "[1,2,3,4,5]")])
    /\ UNCHANGED <<callbackMap, idCounter, timeout, hasHandler, impl, calls, rcv, nSender,
                   nHandler, notices>>

\* parse(message) used by the integrator: out is the error it throws, or NoErr
\* when it returns the parsed json.
Parse(msg) ==
    /\ built' = Append(built, [op |-> "parse", in |-> msg, out |-> parse(msg)])
    /\ UNCHANGED <<callbackMap, idCounter, timeout, hasHandler, impl, calls, rcv, nSender,
                   nHandler, notices>>

\* SpecBooks: every public operation beside one call: receive() of requests,
\* of a response and of batches of both, one of the requests carrying the id
\* the call generates; notice(); and the builders and parse() used directly.
BooksElems ==
    {ReqElem("'sum'", "[1,2,4]", IdNum(1)),
     ReqElem("'notify_hello'", "[7]", IdUndef),
     ResultElem(IdNum(1), "19")}

BooksMessages ==
    {InvalidText}
    \cup {Single(e) : e \in BooksElems}
    \cup {Batch(es) : es \in SeqsOf(BooksElems, MaxBatch)}

BooksIds == {IdUndef, IdNull, IdNum(1), IdStr("1")}
BooksCallIds == {IdUndef, IdStr("1")}
BooksOutcomes == {Outcome("return", "'test'", NoErr), PendingOutcome}

NextBooks ==
    \/ /\ Len(calls) < BooksCalls
       /\ \E id \in BooksCallIds, sb \in CallSenderBehaviours : Call(id, sb)
    \/ \E c \in 1..Len(calls) : SenderResolves(c)
    \/ \E c \in 1..Len(calls), e \in SenderRejections : SenderRejects(c, e)
    \/ \E c \in 1..Len(calls) : TimeoutFires(c)
    \/ /\ Len(rcv) < BooksReceives
       /\ \E msg \in BooksMessages, o \in BooksOutcomes : Receive(msg, o, VoidSender)
    \/ \E p \in 1..Len(rcv) : HandlerSettles(p, Outcome("return", "'test'", NoErr))
    \/ \E p \in 1..Len(rcv), o \in BooksOutcomes : ReceiveLoop(p, o)
    \/ \E p \in 1..Len(rcv) : ReceiveSend(p, VoidSender)
    \/ /\ Len(notices) < BooksNotices
       /\ \E sb \in ReplySenderBehaviours : Notice(sb)
    \/ \E n \in 1..Len(notices), e \in SenderRejections \cup {NoErr} : NoticeSent(n, e)
    \/ /\ Len(built) < BooksBuilt
       /\ \E id \in BooksIds : CreateRequest(id)
    \/ /\ Len(built) < BooksBuilt
       /\ \E error \in {NoErr, NullTypeError} : CreateResponse(IdNum(1), "19", error)
    \/ /\ Len(built) < BooksBuilt
       /\ CreateNotification
    \/ /\ Len(built) < BooksBuilt
       /\ \E msg \in {InvalidText, Batch(<<>>), Single(ResultElem(IdNum(1), "19"))} : Parse(msg)

SpecBooks == InitDispatch /\ [][NextBooks]_vars

\* SpecInTime: the messages of SpecDispatch, each given to receive() while
\* the call is outstanding and its timer has not fired.
OutstandingCall == \E c \in 1..Len(calls) : calls[c].state = "pending" /\ calls[c].timer = "armed"

NextInTime ==
    \/ /\ Len(calls) < DispatchCalls
       /\ Call(IdUndef, [deliver |-> FALSE, ret |-> "void", e |-> NoErr])
    \/ \E c \in 1..Len(calls) : TimeoutFires(c)
    \/ /\ Len(rcv) < DispatchReceives
       /\ OutstandingCall
       /\ \E msg \in Messages, o \in HandlerOutcomes, sb \in ReplySenderBehaviours :
             Receive(msg, o, sb)
    \/ \E p \in 1..Len(rcv), o \in SettledOutcomes : HandlerSettles(p, o)
    \/ \E p \in 1..Len(rcv), o \in HandlerOutcomes : ReceiveLoop(p, o)
    \/ \E p \in 1..Len(rcv), sb \in ReplySenderBehaviours : ReceiveSend(p, sb)
    \/ \E p \in 1..Len(rcv), e \in SenderRejections \cup {NoErr} : ReplySent(p, e)

SpecInTime == InitLive /\ [][NextInTime]_vars

\* SpecIds: calls with no id, with null and with the number and the string
\* that look alike, and responses with each of these as id.
IdsOfCalls == {IdUndef, IdNull, IdNum(1), IdStr("1")}

IdsResponses ==
    {ResultElem(IdNum(1), "19"),
     ResultElem(IdStr("1"), "19"),
     ResultElem(IdNull, "19"),
     ResultElem(IdUndef, "19"),
     ErrorElem(IdNull, ParseError, "'Parse error'", Undefined)}

NextIds ==
    \/ /\ Len(calls) < IdsCalls
       /\ \E id \in IdsOfCalls : Call(id, [deliver |-> FALSE, ret |-> "void", e |-> NoErr])
    \/ \E c \in 1..Len(calls) : TimeoutFires(c)
    \/ /\ Len(rcv) < IdsReceives
       /\ \E e \in IdsResponses : Receive(Single(e), PendingOutcome, VoidSender)

SpecIds == InitLive /\ [][NextIds]_vars

\* ------------------------------------- the deprecated module-level functions
\* The module-level functions work on one instance, impl; in SpecModule the
\* other variables are the state of that instance.

\* A handler invocation of module-level receive p for element k, and the
\* handler h the installed wrapper passed the request to.
Dispatched(p, k, h) == [p |-> p, k |-> k, h |-> h]

\* receive(message, methodHandler) up to its first await: the wrapper of h is
\* installed on impl, then impl.doMetodOrCallback(impl.parse(message)) runs;
\* what parse throws becomes the response that is returned.
ModuleReceive(msg, h, o) ==
    /\ LET r0 == NewRcv(msg)
           pe == parse(msg)
           p == Len(rcv) + 1
           d == dispatch(r0, 1, callbackMap, calls, TRUE, o)
       IN  IF pe.cls # "none"
           THEN /\ rcv' = Append(rcv, [r0 EXCEPT !.res = OneReply(createResponse(IdNull, JNull, pe)),
                                                 !.pc = "done"])
                /\ impl' = [impl EXCEPT !.methodHandler = h, !.given = Append(@, h)]
                /\ UNCHANGED <<callbackMap, calls, nHandler>>
           ELSE /\ rcv' = Append(rcv, d.r)
                /\ callbackMap' = d.cm
                /\ calls' = d.calls
                /\ nHandler' = nHandler + d.invoked
                /\ impl' = [impl EXCEPT !.methodHandler = h, !.given = Append(@, h),
                                        !.log = IF d.invoked = 1
                                                THEN Append(@, Dispatched(p, d.r.idx, h))
                                                ELSE @]
    /\ hasHandler' = TRUE
    /\ UNCHANGED <<idCounter, timeout, nSender, notices, built>>

\* doMetodOrCallback of module-level receive p resumes after doMethod; the
\* next request goes to the wrapper that impl.methodHandler holds by then.
ModuleLoop(p, o) ==
    /\ p \in 1..Len(rcv)
    /\ rcv[p].pc = "loop"
    /\ LET r == rcv[p]
           d == dispatch([r EXCEPT !.responses = @ \o r.cur, !.cur = <<>>],
                         r.idx + 1, callbackMap, calls, hasHandler, o)
       IN  IF ~r.msg.batch
           THEN /\ rcv' = [rcv EXCEPT ![p].pc = "send", ![p].cur = <<>>,
                                      ![p].res = IF Len(r.cur) > 0 THEN OneReply(r.cur[1])
                                                 ELSE NoReply]
                /\ UNCHANGED <<callbackMap, calls, nHandler, impl>>
           ELSE /\ rcv' = [rcv EXCEPT ![p] = d.r]
                /\ callbackMap' = d.cm
                /\ calls' = d.calls
                /\ nHandler' = nHandler + d.invoked
                /\ impl' = [impl EXCEPT !.log = IF d.invoked = 1
                                                THEN Append(@, Dispatched(p, d.r.idx,
                                                                          impl.methodHandler))
                                                ELSE @]
    /\ UNCHANGED <<idCounter, timeout, hasHandler, nSender, notices, built>>

\* Module-level receive p resumes after doMetodOrCallback and returns the
\* response; it invokes no sender.
ModuleReturn(p) ==
    /\ p \in 1..Len(rcv)
    /\ rcv[p].pc = "send"
    /\ rcv' = [rcv EXCEPT ![p].pc = "done"]
    /\ UNCHANGED <<callbackMap, idCounter, timeout, hasHandler, impl, calls, nSender, nHandler,
                   notices, built>>

\* SpecModule: module-level receives of the messages of the tests of the old
\* functions, each with a handler of its own that returns a value or a promise.
InitModule ==
    /\ callbackMap = << >>
    /\ idCounter = 0
    /\ timeout = 60000
    /\ hasHandler = FALSE
    /\ calls = <<>>
    /\ rcv = <<>>
    /\ nSender = 0
    /\ nHandler = 0
    /\ notices = <<>>
    /\ built = <<>>
    /\ impl = NoImpl

ModuleHandlers == {"A", "B"}

ModuleElems ==
    {ReqElem("'sum'", "[1,2,4]", IdStr("1")),
     ReqElem("'notify_hello'", "[7]", IdUndef)}

ModuleMessages ==
    {InvalidText, Single(ReqElem("'subtract'", "[42,23]", IdNum(1)))}
    \cup {Batch(es) : es \in SeqsOf(ModuleElems, MaxBatch)}

ModuleOutcomes == {Outcome("return", "'test'", NoErr), PendingOutcome}

NextModule ==
    \/ /\ Len(rcv) < ModuleReceives
       /\ \E msg \in ModuleMessages, h \in ModuleHandlers \ {impl.given[q] : q \in 1..Len(impl.given)},
             o \in ModuleOutcomes :
             ModuleReceive(msg, h, o)
    \/ \E p \in 1..Len(rcv) : HandlerSettles(p, Outcome("return", "'test'", NoErr))
    \/ \E p \in 1..Len(rcv), o \in ModuleOutcomes : ModuleLoop(p, o)
    \/ \E p \in 1..Len(rcv) : ModuleReturn(p)

SpecModule == InitModule /\ [][NextModule]_vars

\* ------------------------------------------------------------------ claims

\* A member result or error is defined on the element.
HasResultOrError(e) == e.kind = "object" /\ (e.result # Undefined \/ e.hasError)

\* This step is a receive() of one response-shaped object e.
ReceivesResponse(e) ==
    /\ Len(rcv') = Len(rcv) + 1
    /\ rcv'[Len(rcv')].msg = Single(e)
    /\ HasResultOrError(e)

\* Call c is settled in this step.
SettledNow(c) ==
    /\ c \in 1..Len(calls')
    /\ calls'[c].state # "pending"
    /\ (c > Len(calls) \/ calls[c].state = "pending")

\* Nothing is settled, sent, dispatched or changed in the map in this step.
SilentStep ==
    /\ callbackMap' = callbackMap
    /\ calls' = calls
    /\ nSender' = nSender
    /\ nHandler' = nHandler

\* The id of a call that is settled already.
IdOfSettledCall(id) ==
    \E c \in 1..Len(calls) : calls[c].state # "pending" /\ calls[c].req.id = id

C2_RegisteredBeforeSend ==
    \A c \in 1..Len(calls) :
        calls[c].deliver =>
           /\ calls[c].state = "resolved"
           /\ calls[c].by = "response"
           /\ calls[c].value = AnswerTo(calls[c].req).result

C2_Witness ==
    \E c \in 1..Len(calls) :
        /\ calls[c].deliver
        /\ calls[c].state = "resolved"
        /\ calls[c].req.id \notin DOMAIN callbackMap

\* C3 as stated: a response whose id is that of an outstanding call resolves
\* the call with its result, or rejects it with a JsonRpcError whose code,
\* message and data are those of the response's error object.
C3_Original ==
    [][ \A e \in Responses :
          (ReceivesResponse(e) /\ e.id \in DOMAIN callbackMap) =>
             LET c == callbackMap[e.id]
             IN  IF e.hasError
                 THEN /\ calls'[c].state = "rejected"
                      /\ calls'[c].err.cls = "JsonRpcError"
                      /\ calls'[c].err.code = e.error.code
                      /\ calls'[c].err.message = e.error.message
                      /\ calls'[c].err.data = e.error.data
                 ELSE /\ calls'[c].state = "resolved"
                      /\ calls'[c].value = e.result
      ]_vars

\* The same with the message left out: it holds (what is wrong is the message).
C3_ButMessage ==
    [][ \A e \in Responses :
          (ReceivesResponse(e) /\ e.id \in DOMAIN callbackMap) =>
             LET c == callbackMap[e.id]
             IN  IF e.hasError
                 THEN /\ calls'[c].state = "rejected"
                      /\ calls'[c].err.cls = "JsonRpcError"
                      /\ calls'[c].err.code = e.error.code
                      /\ calls'[c].err.data = e.error.data
                 ELSE /\ calls'[c].state = "resolved"
                      /\ calls'[c].value = e.result
      ]_vars

\* A response with the id of call c was handed to receive() at some time.
Answered(c) ==
    \/ \E b \in 1..Len(calls) : calls[b].deliver /\ calls[b].req.id = calls[c].req.id
    \/ \E p \in 1..Len(rcv) : \E k \in 1..Len(rcv[p].msg.elems) :
          /\ HasResultOrError(rcv[p].msg.elems[k])
          /\ rcv[p].msg.elems[k].id = calls[c].req.id

\* Sender failed for call c, or for another call made with the same id.
SenderFailedFor(c) ==
    \E b \in 1..Len(calls) : calls[b].sfail # NoErr /\ calls[b].req.id = calls[c].req.id

\* C4 as stated: once the timer of a call has fired, and sender did not fail
\* and no response with the call's id was ever received, the call is rejected
\* with the TimeoutError that embeds its request and its id is no key of the map.
C4_Original ==
    \A c \in 1..Len(calls) :
        (calls[c].timer = "fired" /\ ~SenderFailedFor(c) /\ ~Answered(c)) =>
           /\ calls[c].state = "rejected"
           /\ calls[c].err = TimeoutErr(calls[c].req)
           /\ calls[c].req.id \notin DOMAIN callbackMap

\* The timer of a call never invokes sender.
C4_TimerSendsNothing ==
    [][ (\E c \in 1..Len(calls) : calls[c].timer = "armed" /\ calls'[c].timer = "fired")
           => nSender' = nSender ]_vars

\* Sender fails for call c in this step: it throws inside call(), or the
\* promise it returned rejects.
SenderFailsNow(c) ==
    /\ c \in 1..Len(calls')
    /\ calls'[c].sfail # NoErr
    /\ (c > Len(calls) \/ calls[c].sfail = NoErr)

\* Call c is outstanding when that happens.
OutstandingThen(c) ==
    IF c > Len(calls) THEN ~calls'[c].deliver ELSE calls[c].state = "pending"

\* C5: when sender throws in call(), or its promise rejects while the call is
\* outstanding, the id is removed from callbackMap and the call rejects with
\* the very value sender threw or rejected with.
C5_SenderFailureRejects ==
    [][ \A c \in 1..Len(calls') :
          (SenderFailsNow(c) /\ OutstandingThen(c)) =>
             /\ calls'[c].state = "rejected"
             /\ calls'[c].by = "sender"
             /\ calls'[c].err = calls'[c].sfail
             /\ calls'[c].req.id \notin DOMAIN callbackMap'
      ]_vars

\* One call was rejected by a throwing sender, another by a rejecting promise.
C5_Witness ==
    \E a \in 1..Len(calls), b \in 1..Len(calls) :
        /\ calls[a].by = "sender" /\ calls[a].sp = "none"
        /\ calls[a].err = calls[a].sfail
        /\ calls[b].by = "sender" /\ calls[b].sp = "rejected"
        /\ calls[b].err = calls[b].sfail

\* C6: receive() of a response-shaped message whose id is no key of
\* callbackMap settles nothing, leaves the map as it is, invokes neither sender
\* nor methodHandler, and resolves.
C6_UnknownIdIsSilent ==
    [][ \A e \in Responses :
          (ReceivesResponse(e) /\ e.id \notin DOMAIN callbackMap) =>
             /\ SilentStep
             /\ rcv'[Len(rcv')].pc = "done"
             /\ rcv'[Len(rcv')].sent = <<>>
             /\ rcv'[Len(rcv')].hlog = <<>>
      ]_vars

\* A response with id null, and one with the id of no call, were received
\* while a call was outstanding.
C6_Witness ==
    \E p \in 1..Len(rcv), c \in 1..Len(calls) :
        /\ rcv[p].pc = "done"
        /\ rcv[p].hits = <<>>
        /\ HasResultOrError(rcv[p].msg.elems[1])
        /\ calls[c].state = "pending"
        /\ calls[c].req.id \in DOMAIN callbackMap

\* The elements of receive r routed to doMethod, in order.
MethodRouted(r) == {k \in 1..Len(r.routes) : r.routes[k] = "method"}
CallbackRouted(r) == {k \in 1..Len(r.routes) : r.routes[k] = "callback"}

\* C7 as stated: an element goes to doCallback if and only if it has a defined
\* result or error member, every other element goes to methodHandler as a
\* request; responses invoke no handler and requests settle no call.
C7_Original ==
    \A p \in 1..Len(rcv) :
        LET r == rcv[p]
        IN  /\ \A k \in 1..Len(r.routes) :
                  /\ (r.routes[k] = "callback") <=> HasResultOrError(r.msg.elems[k])
                  /\ ~HasResultOrError(r.msg.elems[k]) => r.routes[k] = "method"
            /\ Len(r.hlog) = IF hasHandler THEN Cardinality(MethodRouted(r)) ELSE 0
            /\ \A i \in 1..Len(r.hlog) :
                  \E k \in MethodRouted(r) :
                      /\ Cardinality({j \in MethodRouted(r) : j <= k}) = i
                      /\ r.hlog[i].method = r.msg.elems[k].method
                      /\ r.hlog[i].params = r.msg.elems[k].params
                      /\ r.hlog[i].id = r.msg.elems[k].id
            /\ Len(r.hits) <= Cardinality(CallbackRouted(r))

\* The same for the elements that are objects: it holds (what is wrong is the
\* element null, on which isResponse throws).
C7_ObjectsOnly ==
    \A p \in 1..Len(rcv) :
        LET r == rcv[p]
        IN  /\ \A k \in 1..Len(r.routes) :
                  r.msg.elems[k].kind = "object" =>
                     /\ (r.routes[k] = "callback") <=> HasResultOrError(r.msg.elems[k])
                     /\ ~HasResultOrError(r.msg.elems[k]) => r.routes[k] = "method"
            /\ Len(r.hlog) = IF hasHandler THEN Cardinality(MethodRouted(r)) ELSE 0
            /\ Len(r.hits) <= Cardinality(CallbackRouted(r))

\* receive r was given one request-shaped object that carries a number or a
\* string as id.
SingleRequestWithId(r) ==
    /\ r.msg.text = "json"
    /\ ~r.msg.batch
    /\ ~HasResultOrError(r.msg.elems[1])
    /\ r.msg.elems[1].id.t \in {"number", "string"}

\* The handler of the only element of r has returned, or resolved to, a value
\* that is not NoResponse.
HandlerSucceeded(r) ==
    /\ Len(r.made) = 1
    /\ r.made[1].o.how = "return"
    /\ r.made[1].o.v # NoResponse

ReplyId(e) == IF e.id.t \in {"undefined", "null"} THEN IdNull ELSE e.id

\* C9 as stated: whatever the handler throws or rejects with, doMethod returns
\* an error response (error and no result) with the request's id, or null, and
\* a single request's error response is what sender gets.
C9_Original ==
    \A p \in 1..Len(rcv) :
        LET r == rcv[p]
        IN  \A i \in 1..Len(r.made) :
               (hasHandler /\ r.made[i].o.how = "throw") =>
                  /\ Len(r.made[i].res) = 1
                  /\ r.made[i].res[1].hasError
                  /\ ~r.made[i].res[1].hasResult
                  /\ r.made[i].res[1].id = ReplyId(r.msg.elems[r.made[i].k])
                  /\ (~r.msg.batch /\ r.pc \in {"sender", "done", "failed"})
                        => r.sent = <<OneReply(r.made[i].res[1])>>

\* The same for thrown values that are truthy: it holds (what is wrong is a
\* falsy thrown value, which createResponse takes for no error).
C9_TruthyOnly ==
    \A p \in 1..Len(rcv) :
        LET r == rcv[p]
        IN  \A i \in 1..Len(r.made) :
               (hasHandler /\ r.made[i].o.how = "throw" /\ TruthyErr(r.made[i].o.e)) =>
                  /\ Len(r.made[i].res) = 1
                  /\ r.made[i].res[1].hasError
                  /\ ~r.made[i].res[1].hasResult
                  /\ r.made[i].res[1].id = ReplyId(r.msg.elems[r.made[i].k])
                  /\ (~r.msg.batch /\ r.pc \in {"sender", "done", "failed"})
                        => r.sent = <<OneReply(r.made[i].res[1])>>

\* Element made[i].k of receive r is a request without id.
MadeForNotification(r, i) ==
    r.msg.elems[r.made[i].k].id.t = "undefined"

Answering(r) == {i \in 1..Len(r.made) : r.made[i].res # <<>>}

\* C11: when the handler succeeds for a request whose id is undefined or null,
\* doMethod returns null: a single such message never reaches sender, and in a
\* batch the element adds no entry to the reply.
C11_SilentWithoutId ==
    \A p \in 1..Len(rcv) :
        LET r == rcv[p]
        IN  \A i \in 1..Len(r.made) :
               (/\ hasHandler
                /\ r.msg.elems[r.made[i].k].id.t \in {"undefined", "null"}
                /\ r.made[i].o.how = "return") =>
                  /\ r.made[i].res = <<>>
                  /\ ~r.msg.batch => (r.sent = <<>> /\ r.pc \in {"loop", "send", "done"})
                  /\ (r.msg.batch /\ Len(r.sent) > 0 /\ r.sent[1].kind = "batch") =>
                        /\ Len(r.sent[1].rs) = Cardinality(Answering(r))
                        /\ i \notin Answering(r)

\* A single request with id null was handled with success and nothing was sent.
C11_Witness ==
    \E p \in 1..Len(rcv) :
        LET r == rcv[p]
        IN  /\ hasHandler
            /\ r.pc = "done"
            /\ Len(r.made) = 1
            /\ r.msg.elems[1].id.t = "null"
            /\ r.made[1].o.how = "return"
            /\ r.made[1].o.v = "'test'"
            /\ r.sent = <<>>

\* receive r is over: its promise is settled, or waits only for sender's.
Finished(r) == r.pc \in {"done", "failed", "sender"}

\* doMethod returned, for element k of receive r, the MethodNotFound response
\* with the element's id (null when it has none).
MethodNotFoundFor(r, k) ==
    \E i \in 1..Len(r.made) :
        /\ r.made[i].k = k
        /\ Len(r.made[i].res) = 1
        /\ r.made[i].res[1].hasError
        /\ ~r.made[i].res[1].hasResult
        /\ r.made[i].res[1].error.code = MethodNotFound
        /\ r.made[i].res[1].id = ReplyId(r.msg.elems[k])

\* Element e is an object that is no response: a request, with or without id.
RequestShaped(e) == e.kind = "object" /\ ~HasResultOrError(e)

\* C12 as stated: with no methodHandler, every request-shaped element of a
\* received message yields the MethodNotFound response with its id (null when
\* it has none), and no handler runs.
C12_Original ==
    \A p \in 1..Len(rcv) :
        LET r == rcv[p]
        IN  (~hasHandler /\ Finished(r)) =>
               /\ r.hlog = <<>>
               /\ nHandler = 0
               /\ \A k \in 1..Len(r.msg.elems) :
                     RequestShaped(r.msg.elems[k]) => MethodNotFoundFor(r, k)

\* The same for the elements doMethod is given: it holds (what is wrong are the
\* elements that follow an element null in a batch, which are never reached).
C12_Dispatched ==
    \A p \in 1..Len(rcv) :
        LET r == rcv[p]
        IN  ~hasHandler =>
               /\ r.hlog = <<>>
               /\ nHandler = 0
               /\ \A k \in MethodRouted(r) :
                     (Finished(r) \/ k < r.idx) => MethodNotFoundFor(r, k)
               /\ (Finished(r) /\ \A k \in 1..Len(r.msg.elems) : r.msg.elems[k].kind = "object") =>
                     \A k \in 1..Len(r.msg.elems) :
                         ~HasResultOrError(r.msg.elems[k]) => MethodNotFoundFor(r, k)

\* The responses doMethod returned in receive r, in the order it returned them.
MadeResponses(r) ==
    LET a == SelectSeq(r.made, LAMBDA m : m.res # <<>>)
    IN  [j \in 1..Len(a) |-> a[j].res[1]]

\* C13: when the handler returns, or resolves to, NoResponse for a request with
\* a defined id, nothing is sent for that request: a single request never
\* reaches sender, and in a batch the element adds no entry to the reply, which
\* holds the responses of the other elements as they were returned.
C13_NoResponseIsSilent ==
    \A p \in 1..Len(rcv) :
        LET r == rcv[p]
        IN  \A i \in 1..Len(r.made) :
               (/\ hasHandler
                /\ r.msg.elems[r.made[i].k].id.t \in {"number", "string"}
                /\ r.made[i].o.how = "return"
                /\ r.made[i].o.v = NoResponse) =>
                  /\ r.made[i].res = <<>>
                  /\ ~r.msg.batch => (r.sent = <<>> /\ r.pc \in {"loop", "send", "done"})
                  /\ (r.msg.batch /\ Len(r.sent) > 0 /\ r.sent[1].kind = "batch") =>
                        /\ r.sent[1].rs = MadeResponses(r)
                        /\ \A x \in Range(r.sent[1].rs) : x.result # NoResponse

\* In a batch of two requests with id the handler returned NoResponse for the
\* first and a result for the second: the reply holds one response.
C13_Witness ==
    \E p \in 1..Len(rcv) :
        LET r == rcv[p]
        IN  /\ r.msg.batch
            /\ r.pc = "done"
            /\ Len(r.made) = 2
            /\ r.msg.elems[1].id.t = "string"
            /\ r.made[1].o.v = NoResponse
            /\ r.made[2].o.v = "'test'"
            /\ r.made[2].res # <<>>
            /\ Len(r.sent) = 1
            /\ Len(r.sent[1].rs) = 1

\* The request-shaped elements of the message of receive r.
RequestElems(r) == {k \in 1..Len(r.msg.elems) : RequestShaped(r.msg.elems[k])}

\* C14 as stated: when receive() of a batch is over, the handler was invoked
\* once per request-shaped element, in their order, and sender was invoked once
\* with the array of the responses doMethod returned, in their order, or not at
\* all when there is none.
C14_Original ==
    \A p \in 1..Len(rcv) :
        LET r == rcv[p]
        IN  (r.msg.batch /\ Len(r.msg.elems) > 0 /\ hasHandler) =>
               /\ Len(r.hlog) <= Cardinality(RequestElems(r))
               /\ Len(r.sent) <= 1
               /\ Finished(r) =>
                     /\ Len(r.hlog) = Cardinality(RequestElems(r))
                     /\ \A k \in RequestElems(r) :
                           LET i == Cardinality({j \in RequestElems(r) : j <= k})
                           IN  /\ r.hlog[i].method = r.msg.elems[k].method
                               /\ r.hlog[i].params = r.msg.elems[k].params
                               /\ r.hlog[i].id = r.msg.elems[k].id
                     /\ r.sent = IF MadeResponses(r) = <<>> THEN <<>>
                                 ELSE <<ManyReply(MadeResponses(r))>>

\* The same for batches whose elements are all objects: it holds (what is
\* wrong is a batch that holds the element null).
C14_ObjectsOnly ==
    \A p \in 1..Len(rcv) :
        LET r == rcv[p]
        IN  (/\ r.msg.batch /\ Len(r.msg.elems) > 0 /\ hasHandler
             /\ \A k \in 1..Len(r.msg.elems) : r.msg.elems[k].kind = "object") =>
               /\ Len(r.hlog) <= Cardinality(RequestElems(r))
               /\ Len(r.sent) <= 1
               /\ Finished(r) =>
                     /\ Len(r.hlog) = Cardinality(RequestElems(r))
                     /\ \A k \in RequestElems(r) :
                           LET i == Cardinality({j \in RequestElems(r) : j <= k})
                           IN  /\ r.hlog[i].method = r.msg.elems[k].method
                               /\ r.hlog[i].params = r.msg.elems[k].params
                               /\ r.hlog[i].id = r.msg.elems[k].id
                     /\ r.sent = IF MadeResponses(r) = <<>> THEN <<>>
                                 ELSE <<ManyReply(MadeResponses(r))>>

\* C15: in receive() of a batch the elements are taken in array order and one
\* at a time: while the handler of a request-shaped element has not settled,
\* and until the loop has resumed after it, no later element has been routed
\* (no later handler invoked, no later response correlated); the loop is
\* suspended at request-shaped elements only; a call resolved by the batch was
\* resolved by an element already routed.
C15_InOrderOneAtATime ==
    \A p \in 1..Len(rcv) :
        LET r == rcv[p]
        IN  r.msg.batch =>
               /\ Len(r.routes) <= Len(r.msg.elems)
               /\ r.pc \in {"handler", "loop"} =>
                     /\ r.idx = Len(r.routes)
                     /\ r.routes[r.idx] = "method"
               /\ hasHandler => Len(r.hlog) = Cardinality(MethodRouted(r))
               /\ Len(r.made) = IF r.pc = "handler" THEN Cardinality(MethodRouted(r)) - 1
                                ELSE Cardinality(MethodRouted(r))
               /\ \A i \in 1..Len(r.made) :
                     /\ r.made[i].k \in MethodRouted(r)
                     /\ Cardinality({j \in MethodRouted(r) : j <= r.made[i].k}) = i
               /\ Len(r.hits) <= Cardinality(CallbackRouted(r))
               /\ \A i \in 1..Len(r.hits) :
                     \E k \in CallbackRouted(r) : r.msg.elems[k].id = calls[r.hits[i]].req.id
               /\ \A c \in 1..Len(calls) :
                     calls[c].by = "response" =>
                        \E q \in 1..Len(rcv) : \E k \in CallbackRouted(rcv[q]) :
                            rcv[q].msg.elems[k].id = calls[c].req.id

\* The handler of the first element of a batch is pending, the second element
\* is the response to an outstanding call, and that call is still outstanding.
C15_Witness ==
    \E p \in 1..Len(rcv), c \in 1..Len(calls) :
        LET r == rcv[p]
        IN  /\ r.msg.batch
            /\ Len(r.msg.elems) = 2
            /\ r.pc = "handler"
            /\ r.idx = 1
            /\ HasResultOrError(r.msg.elems[2])
            /\ r.msg.elems[2].id = calls[c].req.id
            /\ calls[c].state = "pending"
            /\ calls[c].req.id \in DOMAIN callbackMap

\* C16 as stated: when receive() of a batch is over, whatever its other
\* elements are, every request-shaped object was given to doMethod (and to the
\* handler, if there is one) and the response doMethod returned for it is in
\* the reply sent, and every response-shaped object was given to doCallback.
C16_Original ==
    \A p \in 1..Len(rcv) :
        LET r == rcv[p]
        IN  (r.msg.batch /\ Len(r.msg.elems) > 0 /\ Finished(r)) =>
               \A k \in 1..Len(r.msg.elems) :
                  /\ RequestShaped(r.msg.elems[k]) =>
                        /\ k \in MethodRouted(r)
                        /\ hasHandler =>
                              \E i \in 1..Len(r.hlog) : r.hlog[i].id = r.msg.elems[k].id
                        /\ \E i \in 1..Len(r.made) :
                              /\ r.made[i].k = k
                              /\ r.made[i].res # <<>> =>
                                    /\ Len(r.sent) = 1
                                    /\ r.made[i].res[1] \in Range(r.sent[1].rs)
                  /\ HasResultOrError(r.msg.elems[k]) => k \in CallbackRouted(r)

\* The same for batches whose elements are all objects: it holds.
C16_ObjectsOnly ==
    \A p \in 1..Len(rcv) :
        LET r == rcv[p]
        IN  (/\ r.msg.batch /\ Len(r.msg.elems) > 0 /\ Finished(r)
             /\ \A k \in 1..Len(r.msg.elems) : r.msg.elems[k].kind = "object") =>
               \A k \in 1..Len(r.msg.elems) :
                  /\ RequestShaped(r.msg.elems[k]) =>
                        /\ k \in MethodRouted(r)
                        /\ hasHandler =>
                              \E i \in 1..Len(r.hlog) : r.hlog[i].id = r.msg.elems[k].id
                        /\ \E i \in 1..Len(r.made) :
                              /\ r.made[i].k = k
                              /\ r.made[i].res # <<>> =>
                                    /\ Len(r.sent) = 1
                                    /\ r.made[i].res[1] \in Range(r.sent[1].rs)
                  /\ HasResultOrError(r.msg.elems[k]) => k \in CallbackRouted(r)

\* This step is a receive() of message msg.
ReceivesMsg(msg) ==
    /\ Len(rcv') = Len(rcv) + 1
    /\ rcv'[Len(rcv')].msg = msg

\* The new receive of this step handed sender exactly the error response with
\* this code and message and the id null, and nothing else happened.
RepliesOnlyError(code, message) ==
    LET r == rcv'[Len(rcv')]
    IN  /\ nSender' = nSender + 1
        /\ nHandler' = nHandler
        /\ r.hlog = <<>>
        /\ r.routes = <<>>
        /\ callbackMap' = callbackMap
        /\ calls' = calls
        /\ Len(r.sent) = 1
        /\ r.sent[1].kind = "single"
        /\ r.sent[1].rs[1].jsonrpc = VERSION
        /\ r.sent[1].rs[1].hasError
        /\ ~r.sent[1].rs[1].hasResult
        /\ r.sent[1].rs[1].error.code = code
        /\ r.sent[1].rs[1].error.message = message
        /\ r.sent[1].rs[1].error.data = Undefined
        /\ r.sent[1].rs[1].id = IdNull

\* C17: receive() of text that is no JSON invokes sender once, with the error
\* response of code -32700, message "Parse error" and id null; the handler is
\* not invoked and callbackMap stays as it is.
C17_ParseErrorReply ==
    [][ ReceivesMsg(InvalidText) => RepliesOnlyError(ParseError, "'Parse error'") ]_vars

\* Text that is no JSON was received while a call was outstanding, and
\* receive() resolved.
C17_Witness ==
    \E p \in 1..Len(rcv), c \in 1..Len(calls) :
        /\ rcv[p].msg = InvalidText
        /\ rcv[p].pc = "done"
        /\ Len(rcv[p].sent) = 1
        /\ rcv[p].sent[1].rs[1].error.code = ParseError
        /\ calls[c].state = "pending"
        /\ calls[c].req.id \in DOMAIN callbackMap

\* C18: parse() throws InvalidRequest for a JSON value that is neither object
\* nor array and for the empty array, and receive() then sends one error
\* response of code -32600 and id null and invokes no handler; any other object
\* or array passes parse() as it is, its elements unchecked, and is dispatched.
C18_InvalidRequestReply ==
    [][ /\ ReceivesMsg(PrimitiveText) => RepliesOnlyError(InvalidRequest, "'Invalid Request'")
        /\ ReceivesMsg(Batch(<<>>)) => RepliesOnlyError(InvalidRequest, "'Invalid Request'")
        /\ \A msg \in Messages :
              (ReceivesMsg(msg) /\ msg.text = "json" /\ Len(msg.elems) > 0) =>
                 /\ parse(msg) = NoErr
                 /\ Len(rcv'[Len(rcv')].routes) > 0
                 /\ rcv'[Len(rcv')].msg.elems = msg.elems
      ]_vars

\* The empty array was received and answered with the InvalidRequest response.
C18_Witness ==
    \E p \in 1..Len(rcv) :
        /\ rcv[p].msg = Batch(<<>>)
        /\ rcv[p].pc \in {"done", "sender", "failed"}
        /\ Len(rcv[p].sent) = 1
        /\ rcv[p].sent[1].rs[1].error.code = InvalidRequest

\* What sender throws, or the promise it returned rejects with.
SenderErrors ==
    {sb.e : sb \in {b \in ReplySenderBehaviours : b.ret = "throw"}} \cup SenderRejections

\* C19 as stated: the promise of receive() rejects only when sender threw, or
\* its promise rejected, while sending a reply, and then with sender's error.
C19_Original ==
    \A p \in 1..Len(rcv) :
        /\ rcv[p].pc = "failed" =>
              /\ Len(rcv[p].sent) = 1
              /\ rcv[p].err \in SenderErrors
        /\ rcv[p].pc = "done" => rcv[p].err = NoErr

\* The same, but for a reply that JSON.stringify does not accept: it holds
\* (what is wrong is that receive() rejects with the TypeError of JSON.stringify).
C19_ButSerialization ==
    \A p \in 1..Len(rcv) :
        /\ rcv[p].pc = "failed" =>
              \/ /\ Len(rcv[p].sent) = 1
                 /\ rcv[p].err \in SenderErrors
              \/ /\ rcv[p].sent = <<>>
                 /\ ~Serializable(rcv[p].res)
                 /\ rcv[p].err = StringifyTypeError
        /\ rcv[p].pc = "done" => rcv[p].err = NoErr

\* This step is a notice().
NoticesNow == Len(notices') = Len(notices) + 1

\* C20: notice() invokes sender once, with a request that has no id member, and
\* keeps no books: callbackMap and idCounter are after it what they were before,
\* no call is touched; and every entry of callbackMap is that of a call, so a
\* response given to receive() settles a call or nothing, and changes no notice.
C20_NoticeKeepsNoBooks ==
    [][ /\ NoticesNow =>
              /\ nSender' = nSender + 1
              /\ notices'[Len(notices')].req.jsonrpc = VERSION
              /\ notices'[Len(notices')].req.method = "'update'"
              /\ notices'[Len(notices')].req.params = "[1,2,3,4,5]"
              /\ notices'[Len(notices')].req.id = IdUndef
              /\ callbackMap' = callbackMap
              /\ idCounter' = idCounter
              /\ calls' = calls
              /\ rcv' = rcv
              /\ nHandler' = nHandler
        /\ \A id \in DOMAIN callbackMap' :
              /\ callbackMap'[id] \in 1..Len(calls')
              /\ calls'[callbackMap'[id]].req.id = id
        /\ \A e \in Responses :
              ReceivesResponse(e) =>
                 /\ notices' = notices
                 /\ e.id \notin {calls[c].req.id : c \in 1..Len(calls)} => SilentStep
      ]_vars

\* After a notice a call was made, which got the first generated id, and the
\* response with that id then resolved the call.
C20_Witness ==
    \E c \in 1..Len(calls), p \in 1..Len(rcv) :
        /\ Len(notices) > 0
        /\ notices[1].pc = "done"
        /\ calls[c].req.id = IdNum(1)
        /\ idCounter = 1
        /\ calls[c].state = "resolved"
        /\ calls[c].by = "response"
        /\ rcv[p].hits = <<c>>

\* C21: when sender throws during notice(), or the promise it returned rejects,
\* the promise of notice() is rejected with that very error; and the promise of
\* notice() is resolved only when sender returned no promise or the promise it
\* returned has resolved.
C21_NoticeFollowsSender ==
    \A n \in 1..Len(notices) :
        /\ notices[n].sfail # NoErr =>
              /\ notices[n].pc = "failed"
              /\ notices[n].err = notices[n].sfail
        /\ notices[n].pc = "done" =>
              /\ notices[n].sp \in {"none", "resolved"}
              /\ notices[n].sfail = NoErr
        /\ notices[n].sp = "pending" => notices[n].pc = "sender"

\* One notice was rejected with what the promise of its sender rejected with,
\* another was resolved after the promise of its sender had resolved.
C21_Witness ==
    \E n \in 1..Len(notices), m \in 1..Len(notices) :
        /\ notices[n].sp = "rejected"
        /\ notices[n].pc = "failed"
        /\ notices[n].err \in SenderRejections
        /\ notices[m].sp = "resolved"
        /\ notices[m].pc = "done"

\* The responses createResponse() has built: those built directly, those
\* doMethod returned, and those handed to sender.
BuiltResponses ==
    {built[i].out : i \in {j \in 1..Len(built) : built[j].op = "createResponse"}}
    \cup UNION {UNION {Range(rcv[p].made[i].res) : i \in 1..Len(rcv[p].made)} :
                   p \in 1..Len(rcv)}
    \cup UNION {UNION {Range(rcv[p].sent[i].rs) : i \in 1..Len(rcv[p].sent)} :
                   p \in 1..Len(rcv)}

\* C22: every response createResponse() builds, and so every response handed
\* to sender, has exactly one of result and error; a success response has a
\* result member that is never undefined and no error member; and a response
\* built directly from the result undefined or null without an error has the
\* result null.
C22_ExactlyOneOfResultAndError ==
    /\ \A r \in BuiltResponses :
          /\ r.hasResult # r.hasError
          /\ r.hasResult => (r.result # Undefined /\ r.error = NoErrObj)
          /\ r.hasError => (r.result = Undefined /\ r.error # NoErrObj)
    /\ \A i \in 1..Len(built) :
          (/\ built[i].op = "createResponse"
           /\ built[i].error = NoErr
           /\ built[i].result \in {Undefined, JNull})
          => (built[i].out.hasResult /\ built[i].out.result = JNull)

\* createResponse("test", undefined) was used, and receive() handed sender the
\* response of a request whose handler returned undefined.
C22_Witness ==
    \E i \in 1..Len(built), p \in 1..Len(rcv) :
        /\ built[i].op = "createResponse"
        /\ built[i].id = IdStr("test")
        /\ built[i].result = Undefined
        /\ built[i].error = NoErr
        /\ built[i].out.result = JNull
        /\ Len(rcv[p].made) = 1
        /\ rcv[p].made[1].o = Outcome("return", Undefined, NoErr)
        /\ Len(rcv[p].sent) = 1
        /\ rcv[p].sent[1].rs[1].hasResult
        /\ rcv[p].sent[1].rs[1].result = JNull

\* The handler of element m.k of receive p returned, or resolved to, a value
\* other than NoResponse and undefined, for a request with an id.
ReturnedValue(p, m) ==
    /\ m.o.how = "return"
    /\ m.o.v \notin {NoResponse, Undefined}
    /\ rcv[p].msg.elems[m.k].id.t \notin {"undefined", "null"}

\* The response of doMethod for m, and the one handed to sender, is the success
\* response whose result is the value the handler returned.
ResultIsReturnedValue(p, m) ==
    /\ Len(m.res) = 1
    /\ m.res[1].hasResult
    /\ ~m.res[1].hasError
    /\ m.res[1].result = m.o.v
    /\ \A i \in 1..Len(rcv[p].sent) :
          /\ rcv[p].sent[i].rs[1].hasResult
          /\ rcv[p].sent[i].rs[1].result = m.o.v

\* C23 as stated: for a request with an id, whenever the handler returns or
\* resolves to a value v other than NoResponse and undefined, the success
\* response has the result v, for falsy values as well.
C23_Original ==
    \A p \in 1..Len(rcv) : \A j \in 1..Len(rcv[p].made) :
        ReturnedValue(p, rcv[p].made[j]) => ResultIsReturnedValue(p, rcv[p].made[j])

\* The same for the values v that are truthy or null: it holds (what is wrong
\* is the result of a falsy value, which is sent as null).
C23_TruthyOrNull ==
    \A p \in 1..Len(rcv) : \A j \in 1..Len(rcv[p].made) :
        (/\ ReturnedValue(p, rcv[p].made[j])
         /\ (Truthy(rcv[p].made[j].o.v) \/ rcv[p].made[j].o.v = JNull))
        => ResultIsReturnedValue(p, rcv[p].made[j])

\* C24: createResponse() gives the response the id null for the id undefined
\* or null, the number itself for a number, and the string form of any other
\* value; so the response to a request whose id is a number or a string has
\* that id, in value and in type.
C24_ResponseIdNormalized ==
    /\ \A i \in 1..Len(built) :
          built[i].op = "createResponse" =>
             /\ built[i].id.t \in {"undefined", "null"} => built[i].out.id = IdNull
             /\ built[i].id.t \in {"number", "string"} => built[i].out.id = built[i].id
             /\ built[i].id = IdBool(TRUE) => built[i].out.id = IdStr("true")
             /\ built[i].out.id.t \in {"null", "number", "string"}
    /\ \A p \in 1..Len(rcv) : \A j \in 1..Len(rcv[p].made) :
          rcv[p].msg.elems[rcv[p].made[j].k].id.t \in {"number", "string"} =>
             /\ \A r \in Range(rcv[p].made[j].res) :
                   r.id = rcv[p].msg.elems[rcv[p].made[j].k].id
             /\ \A i \in 1..Len(rcv[p].sent) :
                   rcv[p].sent[i].rs[1].id = rcv[p].msg.elems[rcv[p].made[j].k].id

\* createResponse(true, ...) was used and gave the id "true", and receive()
\* handed sender the response, of id 0, to a request of id 0.
C24_Witness ==
    \E i \in 1..Len(built), p \in 1..Len(rcv) :
        /\ built[i].op = "createResponse"
        /\ built[i].id = IdBool(TRUE)
        /\ built[i].out.id = IdStr("true")
        /\ rcv[p].msg.elems[1].id = IdNum(0)
        /\ Len(rcv[p].sent) = 1
        /\ rcv[p].sent[1].rs[1].id = IdNum(0)

\* This step is a createRequest() or a call() that was given the id undefined
\* or null, and r is the request it made.
GeneratesIdFor(r) ==
    \/ /\ Len(built') = Len(built) + 1
       /\ built'[Len(built')].op = "createRequest"
       /\ built'[Len(built')].id.t \in {"undefined", "null"}
       /\ r = built'[Len(built')].out
    \/ /\ Len(calls') = Len(calls) + 1
       /\ calls'[Len(calls')].arg.t \in {"undefined", "null"}
       /\ r = calls'[Len(calls')].req

\* The requests made so far, directly and by call().
RequestsMade ==
    {built[i].out : i \in {j \in 1..Len(built) : built[j].op = "createRequest"}}
    \cup {calls[c].req : c \in 1..Len(calls)}

\* C25: the counter of a new instance is 0 and never leaves 0..2147483647; a
\* generated id is the counter plus 1, or 1 when the counter is at 2147483647,
\* and is the counter afterwards, so it lies in 1..2147483647; a step that
\* generates no id leaves the counter as it is.
C25_GeneratedIds ==
    [][ /\ idCounter >= 0 /\ idCounter <= MAX_INT32
        /\ idCounter' >= 0 /\ idCounter' <= MAX_INT32
        /\ \A r \in RequestsMade' :
              GeneratesIdFor(r) =>
                 /\ r.id.t = "number"
                 /\ r.id.n = (IF idCounter = MAX_INT32 THEN 1 ELSE idCounter + 1)
                 /\ r.id.n >= 1 /\ r.id.n <= MAX_INT32
                 /\ idCounter' = r.id.n
        /\ (\A r \in RequestsMade' : ~GeneratesIdFor(r)) => idCounter' = idCounter
      ]_vars

\* The ids 2147483647 and then 1 were generated, one after the other.
C25_Witness ==
    /\ Len(built) = 2
    /\ built[1].id = IdUndef
    /\ built[1].out.id = IdNum(MAX_INT32)
    /\ built[2].id = IdUndef
    /\ built[2].out.id = IdNum(1)
    /\ idCounter = 1

\* This step is a createRequest() or a call() that was given the id a, and r
\* is the request it made.
MakesRequest(a, r) ==
    \/ /\ Len(built') = Len(built) + 1
       /\ built'[Len(built')].op = "createRequest"
       /\ a = built'[Len(built')].id
       /\ r = built'[Len(built')].out
    \/ /\ Len(calls') = Len(calls) + 1
       /\ a = calls'[Len(calls')].arg
       /\ r = calls'[Len(calls')].req

\* C26: createRequest() and call() generate the id of the request from the
\* counter only when the id given is undefined or null; a number given, 0
\* among them, is the id as it is, any other value given is the id in its
\* string form, and the counter stays as it is. A response whose id is a key of
\* callbackMap resolves the call registered with that very id, in value and in
\* type, with the result of the response; any other response settles no call.
C26_SuppliedIdIsUsed ==
    [][ /\ \A a \in RequestIds : \A r \in RequestsMade' :
              MakesRequest(a, r) =>
                 /\ a.t \in {"undefined", "null"} =>
                       /\ r.id.t = "number"
                       /\ r.id.n = idCounter'
                       /\ idCounter' # idCounter
                 /\ a.t \in {"number", "string"} => (r.id = a /\ idCounter' = idCounter)
                 /\ a = IdBool(TRUE) => (r.id = IdStr("true") /\ idCounter' = idCounter)
        /\ \A e \in RequestResponses :
              ReceivesResponse(e) =>
                 IF e.id \in DOMAIN callbackMap
                 THEN /\ calls[callbackMap[e.id]].req.id = e.id
                      /\ calls[callbackMap[e.id]].state = "pending"
                      /\ calls'[callbackMap[e.id]].state = "resolved"
                      /\ calls'[callbackMap[e.id]].value = e.result
                      /\ \A c \in 1..Len(calls) :
                            c # callbackMap[e.id] => calls'[c] = calls[c]
                 ELSE calls' = calls
      ]_vars

\* A call was made with the id 0 and one with the id 'UNITTEST1', the counter
\* stayed at 0, and the response of id 0 resolved the first.
C26_Witness ==
    \E c \in 1..Len(calls), d \in 1..Len(calls), p \in 1..Len(rcv) :
        /\ calls[c].arg = IdNum(0)
        /\ calls[c].req.id = IdNum(0)
        /\ calls[d].arg = IdStr("UNITTEST1")
        /\ calls[d].req.id = IdStr("UNITTEST1")
        /\ idCounter = 0
        /\ rcv[p].msg = Single(ResultElem(IdNum(0), "19"))
        /\ calls[c].state = "resolved"
        /\ calls[c].value = "19"
        /\ calls[d].state = "pending"

\* The uses of JsonRpcError.convert so far.
Converted == {built[i] : i \in {j \in 1..Len(built) : built[j].op = "convert"}}

\* What convert() returns serializes to an error object with an integer code
\* and a string message.
ValidErrorObject(b) ==
    /\ b.out.cls = "JsonRpcError"
    /\ ~b.json.nan
    /\ b.json.message \notin NonStringLits

\* C27 as stated: what convert(e) returns serializes to a valid error object
\* for every e; it is e itself for a JsonRpcError; for another Error it has the
\* code, message and data of e, the code -32603 if e has none; for any other
\* value it has the code -32603 and the string form of the value as message.
C27_Original ==
    \A b \in Converted :
        /\ ValidErrorObject(b)
        /\ b.in.cls = "JsonRpcError" => b.out = b.in
        /\ b.in.cls \in {"Error", "TimeoutError", "TypeError"} =>
              /\ b.in.scode = "" =>
                    b.json.code = (IF b.in.code # 0 THEN b.in.code ELSE InternalError)
              /\ b.out.message = b.in.message
              /\ b.out.data = b.in.data
        /\ b.in.cls = "value" =>
              /\ b.json.code = InternalError
              /\ b.json.message = StringOf(b.in.data)
              /\ b.json.data = Undefined

\* The same, but for an Error whose code is no number, and with the message of
\* an Error that has none being the default text: it holds (what is wrong is
\* the code of the error object, which is NaN and is written as null).
C27_ButStringCode ==
    \A b \in Converted :
        /\ b.in.scode = "" => ValidErrorObject(b)
        /\ b.in.scode # "" => (b.json.nan /\ b.out.scode = b.in.scode)
        /\ b.in.cls = "JsonRpcError" => b.out = b.in
        /\ b.in.cls \in {"Error", "TimeoutError", "TypeError"} =>
              /\ b.in.scode = "" =>
                    b.json.code = (IF b.in.code # 0 THEN b.in.code ELSE InternalError)
              /\ b.out.message = (IF Truthy(b.in.message) THEN b.in.message
                                  ELSE "'Internal error'")
              /\ b.out.data = b.in.data
        /\ b.in.cls = "value" =>
              /\ b.json.code = InternalError
              /\ b.json.message = StringOf(b.in.data)
              /\ b.json.data = Undefined

\* The errors constructed so far with a code and without a message.
ConstructedBare ==
    {built[i] : i \in {j \in 1..Len(built) :
                          /\ built[j].op = "new"
                          /\ built[j].given
                          /\ built[j].message = Undefined}}

\* The message of the table for one of the five standard codes.
StandardMessageHolds(b) ==
    /\ b.code = ParseError => b.out.message = "'Parse error'"
    /\ b.code = InvalidRequest => b.out.message = "'Invalid Request'"
    /\ b.code = MethodNotFound => b.out.message = "'Method not found'"
    /\ b.code = InvalidParams => b.out.message = "'Invalid params'"
    /\ b.code = InternalError => b.out.message = "'Internal error'"

StandardCodes == {ParseError, InvalidRequest, MethodNotFound, InvalidParams, InternalError}

\* C28 as stated: an error constructed without a message has the message of
\* the table for the five standard codes, "Server error" for every code from
\* -32099 to -32000, and "Unknown Error" for every other code.
C28_Original ==
    \A b \in ConstructedBare :
        /\ StandardMessageHolds(b)
        /\ (b.code >= -32099 /\ b.code <= -32000) => b.out.message = "'Server error'"
        /\ (b.code \notin StandardCodes /\ ~(b.code >= -32099 /\ b.code <= -32000))
              => b.out.message = "'Unknown Error'"

\* The same, but for the codes from -32099 to -32000: it holds (what is wrong
\* is their message, which is "Unknown Error").
C28_ButServerBand ==
    \A b \in ConstructedBare :
        /\ StandardMessageHolds(b)
        /\ (b.code >= -32099 /\ b.code <= -32000) => b.out.message = "'Unknown Error'"
        /\ (b.code \notin StandardCodes /\ ~(b.code >= -32099 /\ b.code <= -32000))
              => b.out.message = "'Unknown Error'"

\* The errors so far, constructed or returned by convert().
ErrorsBuilt == {built[i] : i \in {j \in 1..Len(built) : built[j].op \in {"new", "convert"}}}

\* C29: toJSON() gives the members code and message and, only when the data of
\* the error is not undefined, the member data with that value (null as well);
\* an error constructed without arguments gives the code -32603 and the message
\* "Internal error" and no data.
C29_DataOnlyWhenDefined ==
    \A b \in ErrorsBuilt :
        /\ b.json.message = b.out.message
        /\ ~b.json.nan => b.json.code = b.out.code
        /\ b.out.data = Undefined => b.json.data = Undefined
        /\ b.out.data # Undefined => b.json.data = b.out.data
        /\ (b.op = "new" /\ ~b.given /\ b.message = Undefined /\ b.data = Undefined) =>
              b.json = [code |-> InternalError, nan |-> FALSE,
                        message |-> "'Internal error'", data |-> Undefined]

\* An error was constructed without arguments and one with the data null, and
\* toJSON() gave no data for the first and the data null for the second.
C29_Witness ==
    \E i \in 1..Len(built), k \in 1..Len(built) :
        /\ built[i].op = "new"
        /\ ~built[i].given
        /\ built[i].message = Undefined
        /\ built[i].data = Undefined
        /\ built[i].json.code = InternalError
        /\ built[i].json.data = Undefined
        /\ built[k].op = "new"
        /\ built[k].data = JNull
        /\ built[k].json.data = JNull

\* Call c was made while timeout was 0 or negative.
MadeWithoutTimeout(c) == calls[c].tmo <= 0

\* No timer was set for call c and it is not rejected by one.
NoTimer(c) ==
    /\ calls[c].timer = "none"
    /\ calls[c].by # "timeout"
    /\ calls[c].err.cls # "TimeoutError"

\* C30 as stated: a call made while timeout is 0 or negative gets no timer and
\* is never rejected with the TimeoutError, and as long as no response with its
\* id was received and sender did not fail, its id is a key of callbackMap.
C30_Original ==
    \A c \in 1..Len(calls) :
        MadeWithoutTimeout(c) =>
           /\ NoTimer(c)
           /\ (~Answered(c) /\ ~SenderFailedFor(c)) =>
                 calls[c].req.id \in DOMAIN callbackMap

\* The same for the calls whose id no other call has, and with the entry being
\* that of the call itself: it holds (what is wrong is the entry of a call
\* whose id another call registers again, which the timer of that call removes).
C30_UnsharedId ==
    \A c \in 1..Len(calls) :
        MadeWithoutTimeout(c) =>
           /\ NoTimer(c)
           /\ (/\ ~Answered(c)
               /\ ~SenderFailedFor(c)
               /\ \A d \in 1..Len(calls) : d # c => calls[d].req.id # calls[c].req.id)
              => /\ calls[c].state = "pending"
                 /\ calls[c].req.id \in DOMAIN callbackMap
                 /\ callbackMap[calls[c].req.id] = c

\* The timer of call c fires in this step.
TimerFiresNow(c) ==
    /\ c \in 1..Len(calls)
    /\ calls[c].timer = "armed"
    /\ calls'[c].timer = "fired"

\* The settlement of every call is after this step what it was before.
SettlementsKept ==
    \A d \in 1..Len(calls) :
        /\ calls'[d].state = calls[d].state
        /\ calls'[d].value = calls[d].value
        /\ calls'[d].err = calls[d].err
        /\ calls'[d].by = calls[d].by

\* A settled call keeps its settlement, and the timer of a pending call that
\* holds its entry removes the entry and rejects the call.
FirstOneWins ==
    /\ \A c \in 1..Len(calls) :
          calls[c].state # "pending" =>
             /\ calls'[c].state = calls[c].state
             /\ calls'[c].by = calls[c].by
    /\ \A c \in 1..Len(calls) :
          (/\ TimerFiresNow(c)
           /\ calls[c].state = "pending"
           /\ calls[c].req.id \in DOMAIN callbackMap
           /\ callbackMap[calls[c].req.id] = c)
          => /\ calls'[c].state = "rejected"
             /\ calls'[c].by = "timeout"
             /\ calls[c].req.id \notin DOMAIN callbackMap'

\* C31 as stated: of the correlation and the timer of a call the first settles
\* it and removes its entry, and the other then changes neither callbackMap
\* nor the settlement of any call, also when the id of the settled call has
\* been used again by a later call.
C31_Original ==
    [][ /\ FirstOneWins
        /\ \A c \in 1..Len(calls) :
              (TimerFiresNow(c) /\ calls[c].state # "pending") =>
                 (callbackMap' = callbackMap /\ SettlementsKept)
        /\ \A e \in Responses :
              (/\ ReceivesResponse(e)
               /\ ~(\E b \in 1..Len(calls) :
                       /\ calls[b].state = "pending"
                       /\ calls[b].req.id = e.id))
              => (callbackMap' = callbackMap /\ SettlementsKept)
      ]_vars

\* The same, but for the timer of a settled call whose id a later call has
\* registered again: it holds (what is wrong is that this timer removes the
\* entry of the later call).
C31_ButReusedId ==
    [][ /\ FirstOneWins
        /\ \A c \in 1..Len(calls) :
              (/\ TimerFiresNow(c)
               /\ calls[c].state # "pending"
               /\ calls[c].req.id \notin DOMAIN callbackMap)
              => (callbackMap' = callbackMap /\ SettlementsKept)
        /\ \A c \in 1..Len(calls) :
              (/\ TimerFiresNow(c)
               /\ calls[c].state # "pending"
               /\ calls[c].req.id \in DOMAIN callbackMap)
              => (/\ calls[c].req.id \notin DOMAIN callbackMap'
                  /\ callbackMap[calls[c].req.id] # c
                  /\ SettlementsKept)
        /\ \A e \in Responses :
              (/\ ReceivesResponse(e)
               /\ ~(\E b \in 1..Len(calls) :
                       /\ calls[b].state = "pending"
                       /\ calls[b].req.id = e.id))
              => (callbackMap' = callbackMap /\ SettlementsKept)
      ]_vars

\* C32 as stated: with a positive timeout every call is settled in the end,
\* whatever the calls, responses, sender completions and ids are.
C32_Original ==
    \A c \in 1..MaxCalls :
        (c \in 1..Len(calls) /\ calls[c].tmo > 0)
            ~> (c \in 1..Len(calls) /\ calls[c].state # "pending")

\* The same for the calls whose id no other call has: it holds (what is wrong
\* is a call whose entry another call with the same id, or the timer of one,
\* has taken away).
C32_UnsharedId ==
    \A c \in 1..MaxCalls :
        (c \in 1..Len(calls) /\ calls[c].tmo > 0)
            ~> (/\ c \in 1..Len(calls)
                /\ \/ calls[c].state # "pending"
                   \/ \E d \in 1..Len(calls) :
                         d # c /\ calls[d].req.id = calls[c].req.id)

\* The entry under the id of call c is that of call c.
HoldsOwnEntry(c) ==
    /\ calls[c].req.id \in DOMAIN callbackMap
    /\ callbackMap[calls[c].req.id] = c

\* C33 as stated: every call whose promise is pending has its own entry in
\* callbackMap under its id, so no call() overwrites the entry of another
\* pending call, whatever the ids are.
C33_Original ==
    \A c \in 1..Len(calls) : calls[c].state = "pending" => HoldsOwnEntry(c)

\* The same for the calls whose id no other call has: it holds (what is wrong
\* is call() registering an id that is a key already).
C33_UnsharedId ==
    \A c \in 1..Len(calls) :
        (/\ calls[c].state = "pending"
         /\ \A d \in 1..Len(calls) : d # c => calls[d].req.id # calls[c].req.id)
        => HoldsOwnEntry(c)

\* The keys of callbackMap whose entry this step adds, removes or replaces.
ChangedKeys ==
    {k \in DOMAIN callbackMap \cup DOMAIN callbackMap' :
        \/ k \notin DOMAIN callbackMap
        \/ k \notin DOMAIN callbackMap'
        \/ callbackMap[k] # callbackMap'[k]}

\* The ids of the calls this step settles.
SettledIds == {calls'[c].req.id : c \in {d \in 1..Len(calls') : SettledNow(d)}}

\* This step touches no entry and no call but those of id.
TouchesOnly(id) == ChangedKeys \subseteq {id} /\ SettledIds \subseteq {id}

\* C34: a response, a timer, a sender failure and a call() touch the entry
\* and the settlement of the calls of their own id only: every entry under
\* another id and every call of another id is after the step what it was
\* before, in whatever order the responses come.
C34_OtherIdsUntouched ==
    [][ /\ \A e \in Responses : ReceivesResponse(e) => TouchesOnly(e.id)
        /\ \A c \in 1..Len(calls) :
              (TimerFiresNow(c) \/ calls'[c].sp # calls[c].sp) =>
                 TouchesOnly(calls[c].req.id)
        /\ Len(calls') = Len(calls) + 1 => TouchesOnly(calls'[Len(calls')].req.id)
      ]_vars

\* Two calls of distinct ids were outstanding, the response to the second came
\* first and resolved it while the first stayed as it was, and the response
\* to the first then resolved the first.
C34_Witness ==
    /\ Len(calls) = 2
    /\ Len(rcv) = 2
    /\ calls[1].req.id # calls[2].req.id
    /\ ~calls[1].deliver
    /\ ~calls[2].deliver
    /\ rcv[1].hits = <<2>>
    /\ rcv[2].hits = <<1>>
    /\ calls[1].state = "resolved"
    /\ calls[2].state = "resolved"

\* This step is a direct use of createRequest, createResponse,
\* createNotification or parse.
BuildsNow == Len(built') = Len(built) + 1

\* This step is one of notice(): its start or the settling of what sender returned.
NoticeStep == notices' # notices

\* This step is one of a receive() whose message has request-shaped elements only.
RequestOnlyStep ==
    \E p \in 1..Len(rcv') :
       /\ p \in 1..Len(rcv) => rcv'[p] # rcv[p]
       /\ rcv'[p].msg.text = "json"
       /\ \A i \in 1..Len(rcv'[p].msg.elems) : RequestShaped(rcv'[p].msg.elems[i])

\* This step correlates a response: the callback of a call ran.
CorrelatesNow ==
    \E p \in 1..Len(rcv') :
       Len(rcv'[p].hits) > (IF p \in 1..Len(rcv) THEN Len(rcv[p].hits) ELSE 0)

\* C35: callbackMap changes only in a step of call() (the call itself, or the
\* failure of what its sender returned), in the correlation of a response and
\* in a timeout callback. receive() of requests only, notice(), createRequest,
\* createResponse, createNotification and parse leave it as it was, whatever
\* ids they are given, and of these only createRequest with no id (undefined
\* or null) changes idCounter, which it always does.
C35_WhoKeepsTheBooks ==
    [][ /\ (BuildsNow \/ NoticeStep \/ RequestOnlyStep) => callbackMap' = callbackMap
        /\ (NoticeStep \/ RequestOnlyStep) => idCounter' = idCounter
        /\ BuildsNow =>
              (idCounter' # idCounter <=>
                  /\ built'[Len(built')].op = "createRequest"
                  /\ built'[Len(built')].id \in {IdUndef, IdNull})
        /\ callbackMap' # callbackMap =>
              \/ Len(calls') = Len(calls) + 1
              \/ \E c \in 1..Len(calls) : calls[c].sp = "pending" /\ calls'[c].sp = "rejected"
              \/ \E c \in 1..Len(calls) : TimerFiresNow(c)
              \/ CorrelatesNow
      ]_vars

\* While a call with the generated id 1 was outstanding, a request with id 1
\* was received and its handler ran to the end, a notice was sent and a
\* request was built with no id: the call is still pending under its entry,
\* the only one, and the counter went on to 2.
C35_Witness ==
    /\ Len(calls) = 1 /\ Len(rcv) = 1 /\ Len(notices) = 1 /\ Len(built) = 1
    /\ calls[1].arg = IdUndef
    /\ calls[1].state = "pending"
    /\ rcv[1].msg = Single(ReqElem("'sum'", "[1,2,4]", IdNum(1)))
    /\ rcv[1].pc = "done"
    /\ Len(rcv[1].hlog) = 1
    /\ notices[1].pc = "done"
    /\ built[1].op = "createRequest"
    /\ built[1].id = IdUndef
    /\ callbackMap = (IdNum(1) :> 1)
    /\ idCounter = 2

\* Element k of the message of receive p is a response with the id of call c.
ResponseAt(p, k, c) ==
    /\ k \in 1..Len(rcv[p].msg.elems)
    /\ HasResultOrError(rcv[p].msg.elems[k])
    /\ rcv[p].msg.elems[k].id = calls[c].req.id

\* C36 as stated: a call whose response was given to receive() before its
\* timer fired, alone or as an element of a batch whose other elements are
\* requests and responses, is never rejected by the timer; once receive() is
\* through with the message the call is settled by the response.
C36_Original ==
    \A c \in 1..Len(calls), p \in 1..Len(rcv) :
       (/\ \E k \in 1..Len(rcv[p].msg.elems) : ResponseAt(p, k, c)
        /\ \A k \in 1..Len(rcv[p].msg.elems) : rcv[p].msg.elems[k].kind = "object") =>
          /\ calls[c].by # "timeout"
          /\ rcv[p].pc \in {"done", "failed"} => calls[c].by = "response"

\* What holds instead: a response in time that is the message, or that only
\* responses precede in its batch, resolves the call in the step that starts
\* receive(); the timer can only win over a response that follows a request
\* or a null in its batch.
C36_ButAfterRequests ==
    \A c \in 1..Len(calls), p \in 1..Len(rcv) :
       /\ (\E k \in 1..Len(rcv[p].msg.elems) :
              /\ ResponseAt(p, k, c)
              /\ \A j \in 1..(k - 1) : HasResultOrError(rcv[p].msg.elems[j]))
          => calls[c].state = "resolved" /\ calls[c].by = "response"
       /\ ((\E k \in 1..Len(rcv[p].msg.elems) : ResponseAt(p, k, c))
              /\ calls[c].by = "timeout")
          => \E k \in 1..Len(rcv[p].msg.elems) :
                /\ ResponseAt(p, k, c)
                /\ \E j \in 1..(k - 1) : ~HasResultOrError(rcv[p].msg.elems[j])

\* C37: the keys of callbackMap are numbers and strings, never null or
\* undefined, and a response settles only a call registered under its very
\* id, of the same type: the string "1" and the number 1 are two ids, and a
\* response whose id is null, or that has none, settles no call and removes
\* no entry.
C37_IdsByValueAndType ==
    [][ /\ \A k \in DOMAIN callbackMap' : k.t \in {"number", "string"}
        /\ \A e \in IdsResponses :
              ReceivesResponse(e) =>
                 /\ \A c \in 1..Len(calls) : SettledNow(c) => calls[c].req.id = e.id
                 /\ \A k \in DOMAIN callbackMap : k # e.id => k \in DOMAIN callbackMap'
                 /\ e.id.t \in {"null", "undefined"} =>
                       callbackMap' = callbackMap /\ calls' = calls
      ]_vars

\* A call made with id '1' and a call made with id null, which got the number
\* 1, were outstanding; the response with id null settled neither, and the
\* response with the number 1 then resolved the second and left the first
\* pending under its entry.
C37_Witness ==
    /\ Len(calls) = 2 /\ Len(rcv) = 2
    /\ calls[1].arg = IdStr("1")
    /\ calls[2].arg = IdNull
    /\ calls[2].req.id = IdNum(1)
    /\ rcv[1].msg = Single(ResultElem(IdNull, "19"))
    /\ rcv[1].hits = <<>>
    /\ rcv[2].msg = Single(ResultElem(IdNum(1), "19"))
    /\ rcv[2].hits = <<2>>
    /\ calls[1].state = "pending"
    /\ calls[2].state = "resolved"
    /\ callbackMap = (IdStr("1") :> 1)

\* Element k of the message of receive p is request-shaped and its turn in
\* doMetodOrCallback has come.
TurnCame(p, k) ==
    /\ k \in 1..Len(rcv[p].msg.elems)
    /\ RequestShaped(rcv[p].msg.elems[k])
    /\ \/ k < rcv[p].idx
       \/ k = rcv[p].idx /\ rcv[p].pc \in {"handler", "loop"}
       \/ rcv[p].pc \in {"send", "done"}

\* C38 as stated: every request-shaped element of the message of a
\* module-level receive() whose turn has come was dispatched once, to the
\* methodHandler given to that receive(), whatever other receive() started in
\* between.
C38_Original ==
    /\ \A i \in 1..Len(impl.log) : impl.log[i].h = impl.given[impl.log[i].p]
    /\ \A p \in 1..Len(rcv) : \A k \in 1..Len(rcv[p].msg.elems) :
          TurnCame(p, k) =>
             Cardinality({i \in 1..Len(impl.log) :
                             impl.log[i].p = p /\ impl.log[i].k = k}) = 1

\* What holds instead: every such element is dispatched once, the elements up
\* to the first request-shaped one to the handler given to their receive(),
\* and every later one to the handler given to the module-level receive()
\* that started last before its turn came.
C38_ButLastInstalled ==
    /\ \A i \in 1..Len(impl.log) :
          LET e == impl.log[i]
          IN  \/ e.h = impl.given[e.p]
              \/ /\ \E j \in 1..(e.k - 1) : RequestShaped(rcv[e.p].msg.elems[j])
                 /\ \E q \in (e.p + 1)..Len(impl.given) : e.h = impl.given[q]
    /\ \A p \in 1..Len(rcv) : \A k \in 1..Len(rcv[p].msg.elems) :
          TurnCame(p, k) =>
             Cardinality({i \in 1..Len(impl.log) :
                             impl.log[i].p = p /\ impl.log[i].k = k}) = 1

====
